---- MODULE Spec2Model ----
(***************************************************************************)
(* A model of the roar peer-to-peer voice chat node: the Connection        *)
(* Manager (src/core/network_manager.py), the Session Coordinator          *)
(* (src/app.py), and the run flags of the Discovery Engine                 *)
(* (src/core/peer_discovery.py) and Audio Pipeline                         *)
(* (src/core/audio_handler.py).                                            *)
(*                                                                         *)
(* Threads are modelled by program counters.  Every region of code that    *)
(* runs while holding NetworkManager.lock is one atomic action; statements *)
(* outside the lock are separate steps, so that every interleaving of the  *)
(* accept loop, connect_to_peer, the receivers, the broadcast and stop()   *)
(* that the lock permits is explored.                                      *)
(***************************************************************************)
EXTENDS Integers, Sequences, FiniteSets, TLC

\* ------------------------------------------------------------------ bounds

\* Sockets ever created (accepted or dialled) in one run.
MaxSocks == 2

\* The clock runs from 0 to MaxTime seconds.
MaxTime == 3

\* config.PEER_TIMEOUT (config.py:18), read from the environment; a node
\* configured with a timeout of two seconds.
PEER_TIMEOUT == 2
\* Broadcasts (_send_packet calls with a non-empty payload) in one run.
MaxSends == 1
\* Sockets ever created in one run of the whole-node specification.
NodeSocks == 1

\* Peer addresses the environment can present (as a dial target from the Peer
\* Table, or as the remote address of an inbound connection).
Addrs == {"10.0.0.2", "10.0.0.3"}

\* Threads that call into the coordinator: the thread running
\* VoiceP2PChat.start() (the session main loop) and the UI thread.
Callers == {"main", "ui"}

\* The discovery loops PeerDiscovery.start() can spawn.
DiscLoops == {"announce", "listen", "tailscale", "cleanup"}

VARIABLES
    appRunning,     \* VoiceP2PChat.running
    recording,      \* AudioHandler.recording
    audioRunning,   \* AudioHandler.running (the playback loop's flag)
    discRunning,    \* PeerDiscovery.running
    useTailscale,   \* PeerDiscovery.use_tailscale, fixed at construction
    netRunning,     \* NetworkManager.running
    connections,    \* NetworkManager.connections: insertion-ordered dict, a
                    \* sequence of [ip, sock] entries with distinct ip
    socks,          \* every socket created so far; a socket's id is its index
    pc,             \* program counter of each caller thread
    dlAddr,         \* connect_to_peer: peer_ip of the call in progress
    dlSock,         \* connect_to_peer: the connected socket not yet registered
    dlResult,       \* connect_to_peer: how the last call ended, as it logs it:
                    \* "already" (line 125), "connected" (line 138), "failed"
                    \* (line 151); "none" before any call has returned
    acc,            \* program counter of the accept thread
    accSock,        \* _accept_connections: accepted conn not yet registered
    dloop,          \* program counter of each discovery loop
    pb,             \* program counter of the playback loop
    sends,          \* number of broadcasts performed (bounded by MaxSends)
    netStopped,     \* history: NetworkManager.stop() has returned since start()
    quiet           \* history: "running" while a stop() call runs with no other
                    \* thread stepping, "done" once such a call has returned
                    \* and still nothing but stop() calls has run, else "no"
VARIABLES
    outb,           \* byte level: the bytes each socket's sendall calls wrote
    rxStream,       \* byte level: bytes a peer wrote that conn.recv has not yet
                    \* returned
    rxEof,          \* byte level: the peer has closed its end of the stream
    rxFrames,       \* history: the frames the peer wrote, in wire order
    delivered,      \* history: the callback invocations, in order
    uiCalls         \* history: the invocations of the UI's text callback
                    \* (VoiceP2PChat.text_message_callback), in order
VARIABLES
    peers,          \* PeerDiscovery.peers: insertion-ordered dict, a sequence of
                    \* [ip, username, last_seen] records with distinct ip
    now,            \* time.time(), in seconds
    clTime,         \* _cleanup_loop: current_time of the pass in progress
    clIter,         \* _cleanup_loop: the iterator over self.peers.items(): its
                    \* position and the size of the dict when it was created
    clRemove,       \* _cleanup_loop: to_remove
    tsIns,          \* _tailscale_discovery_loop: tailscale_peers (its keys res,
                    \* fetched at time at) and the keys not yet stored (todo);
                    \* failed: _get_tailscale_peers returned {} on an error
    tsDel,          \* _tailscale_discovery_loop: removed_peers not yet deleted
    heard           \* history: for each address, the time of the last
                    \* announcement the listen loop recorded (-1 if none)
VARIABLES
    target_size,        \* AdaptiveJitterBuffer.target_size, in frames
    underrun_count,     \* AdaptiveJitterBuffer.underrun_count
    overrun_count,      \* AdaptiveJitterBuffer.overrun_count
    agc_current_gain,   \* AudioHandler.agc_current_gain, in thousandths
    vadLog              \* history: how each call of get_audio_chunk went, in
                        \* order
VARIABLES
    link,       \* two nodes: for each TCP connection between them, the node
                \* that dialled it and the state of the socket at either end
    pConn,      \* two nodes: for each node, the connection registered in its
                \* table under the other's address (0 if none)
    pDial,      \* two nodes: for each node, the connection its connect_to_peer
                \* has dialled and not yet registered (0 if none)
    pAcc        \* two nodes: for each node, the connection its accept() has
                \* returned and its accept thread not yet handled (0 if none)
VARIABLES
    playback_queue,     \* AudioHandler.playback_queue: the frames it holds,
                        \* oldest first
    playback_started,   \* AudioHandler.playback_started
    last_age,           \* _playback_loop: time.time() - last_packet_time, in
                        \* ticks of 10 ms
    gap,                \* history: ticks since play_audio was last called
    gapPlaying,         \* history: that call put its frame in the empty
                        \* queue of a loop that was playing
    plcRun,             \* history: the concealment frames written in a row
                        \* since then
    obsRun              \* history: the kind of the last queue size passed
                        \* to adjust and how many of that kind came in a row
VARIABLES
    written,    \* history: what the last step of the playback loop wrote to
                \* the output device ("none", "frame" or "plc"), the frame it
                \* took from the queue, how many queued frames went into
                \* the output frame, and a bit that flips with every write
    prod,       \* frame level: for each receiver thread, where it is in
                \* play_audio, the frame it holds and the get_nowait calls
                \* it has made in this call
    arrived     \* frame level: the number of frames received so far; a
                \* frame's identity is its rank in that order
VARIABLES
    scaled      \* sample level: the last sample apply_agc multiplied by the
                \* gain: the sample, the gain, the int16 it became, and a bit
                \* that flips with every sample
VARIABLES
    lock,       \* lock level: the thread inside `with self.lock`, or "free"
    region,     \* lock level: for each thread that uses the connection
                \* table, where it is in its region of code that does
    iter,       \* lock level: the dict iterator of the region that loops
                \* over the table: its position, the size of the dict when
                \* it was created, and the disconnected list
    access      \* history: the last access to the table: the thread, whether
                \* it held the lock, and a bit that flips with every access
VARIABLES
    dgram       \* history: where the handling of the last malformed datagram
                \* raised in _listen_loop, and a bit that flips with every
                \* such datagram
VARIABLES
    vanished    \* environment: the process of the peer VPeer has died
VARIABLES
    sendReq     \* byte level: the last call of send_audio or send_text: its
                \* packet type, the length of its payload, how it ended, and
                \* a bit that flips with every call

vars == <<appRunning, recording, audioRunning, discRunning, useTailscale,
          netRunning, connections, socks, pc, dlAddr, dlSock, dlResult, acc,
          accSock, dloop, pb, sends, netStopped, quiet,
          outb, rxStream, rxEof, rxFrames, delivered,
          peers, now, clTime, clIter, clRemove, tsIns, tsDel, heard,
          target_size, underrun_count, overrun_count, agc_current_gain, vadLog,
          uiCalls, link, pConn, pDial, pAcc, sendReq,
          playback_queue, playback_started, last_age, gap, gapPlaying,
          plcRun, obsRun, dgram, vanished, written, prod, arrived, scaled,
          lock, region, iter, access>>

\* The byte-level variables; the actions that abstract from frame contents
\* leave them alone.
wireVars == <<outb, rxStream, rxEof, rxFrames, delivered, uiCalls>>

\* The Discovery Engine's variables; the actions of the other components
\* leave them alone.
discVars == <<peers, now, clTime, clIter, clRemove, tsIns, tsDel, heard>>

\* The addresses announcements can name: the peers' and the node's own.
LocalIp == "10.0.0.1"
AllAddrs == Addrs \cup {LocalIp}

\* peer_discovery.py:33  the Discovery Engine as constructed: no peer, no pass
\* in progress.
DiscIdle ==
    /\ peers = <<>>
    /\ now = 0
    /\ clTime = 0
    /\ clIter = [pos |-> 0, size |-> 0]
    /\ clRemove = <<>>
    /\ tsIns = [res |-> {}, todo |-> {}, at |-> 0, failed |-> FALSE]
    /\ tsDel = {}
    /\ heard = [a \in AllAddrs |-> -1]

\* The Audio Pipeline's variables; the actions of the other components leave
\* them alone.
audioVars == <<target_size, underrun_count, overrun_count, agc_current_gain,
               vadLog>>

\* audio_handler.py:154  AdaptiveJitterBuffer(initial_size=8, min_size=4,
\* max_size=20)
initial_size == 8
min_size == 4
max_size == 20

\* audio_handler.py:114-116  the AGC parameters, in thousandths
AGC_TARGET_LEVEL == 300
AGC_MIN_GAIN == 500
AGC_MAX_GAIN == 4000

\* audio_handler.py:41-45,157-158  the Audio Pipeline as constructed: the
\* jitter buffer at its initial size, gain 1.0, nothing captured yet.
AudioIdle ==
    /\ target_size = initial_size
    /\ underrun_count = 0
    /\ overrun_count = 0
    /\ agc_current_gain = 1000
    /\ vadLog = <<>>

\* The variables of the two-node system; the single node's actions leave them
\* alone.
pairVars == <<link, pConn, pDial, pAcc>>

\* The two nodes, and the connections that can exist between them at a time.
Nodes == {"A", "B"}
MaxLinks == 3
Links == 1..MaxLinks

Other(n) == IF n = "A" THEN "B" ELSE "A"

\* A connection that does not exist.
FreeLink == [dialer |-> "none", dEnd |-> "closed", aEnd |-> "closed"]

\* Two nodes with no connection between them.
PairIdle ==
    /\ link = [l \in Links |-> FreeLink]
    /\ pConn = [n \in Nodes |-> 0]
    /\ pDial = [n \in Nodes |-> 0]
    /\ pAcc = [n \in Nodes |-> 0]

\* The peers' processes; the node's own actions leave them alone.
vanishVars == <<vanished>>

\* Every peer's process is running.
VanishIdle == vanished = FALSE

\* The history of malformed datagrams.
dgramVars == <<dgram>>

\* No malformed datagram yet.
DgramIdle == dgram = [id |-> 0, raised |-> "none"]

\* The playback loop's variables; the actions of the other components leave
\* them alone.
playVars == <<playback_queue, playback_started, last_age, gap, gapPlaying,
              plcRun, obsRun>>

\* audio_handler.py:122,161,310  the playback loop as it starts: an empty
\* queue, not playing, last_packet_time = time.time().
PlayIdle ==
    /\ playback_queue = <<>>
    /\ playback_started = FALSE
    /\ last_age = 0
    /\ gap = 0
    /\ gapPlaying = FALSE
    /\ plcRun = 0
    /\ obsRun = [kind |-> "none", n |-> 0]

\* The threads that use the connection table: the accept thread, the main
\* loop in connect_to_peer, a thread in _send_packet, a receiver at its exit,
\* a thread in NetworkManager.stop() and one in get_connected_peers().
TableUsers == {"accept", "dial", "send", "recv", "stop", "query"}

\* The two regions that loop over the table: `for peer_ip, conn in
\* self.connections.items()` in _send_packet and in stop().
Loopers == {"send", "stop"}

\* The lock-level variables; the actions that take a locked region as one
\* step leave them alone.
lockVars == <<lock, region, iter, access>>

\* The lock is free and no thread is in a region that uses the table.
LockIdle ==
    /\ lock = "free"
    /\ region = [t \in TableUsers |-> [at |-> "out", sock |-> 0]]
    /\ iter = [t \in Loopers |-> [pos |-> 0, size |-> 0, disconnected |-> <<>>]]
    /\ access = [id |-> 0, by |-> "none", held |-> TRUE]

\* The sample-level history of the AGC; the actions that do not scale a
\* sample leave it alone.
sampleVars == <<scaled>>

\* No sample scaled yet.
SampleIdle == scaled = [id |-> 0, sample |-> 0, gain |-> 0, out |-> 0]

\* The receiver threads that call play_audio, one per connection.
Producers == {"10.0.0.2", "10.0.0.3"}

\* The frame-level variables of the playback queue; the actions that do not
\* tell frames apart leave them alone.
queueVars == <<written, prod, arrived>>

\* Nothing written yet, no play_audio call in progress.
QueueIdle ==
    /\ written = [id |-> 0, kind |-> "none", frame |-> 0, mixed |-> 0]
    /\ prod = [p \in Producers |->
                 [at |-> "idle", frame |-> 0, gets |-> 0]]
    /\ arrived = 0

\* The history of the send calls; the actions that are no send call leave it
\* alone.
sendVars == <<sendReq>>

\* A payload length of hi * 2^16 + lo bytes.  Lengths are kept in 16-bit
\* halves: struct.pack('!I', ...) takes values up to 2^32 - 1, which is more
\* than an integer of the checker holds.
Length(hi, lo) == [hi |-> hi, lo |-> lo]

\* len(data) of a byte string held in the model.
LenOf(data) == Length(Len(data) \div 65536, Len(data) % 65536)

\* No send call yet.
SendIdle ==
    sendReq = [id |-> 0, type |-> 0, size |-> Length(0, 0), ended |-> "none"]

\* Nothing received yet on the byte-level connection.
RxIdle ==
    /\ rxStream = <<>>
    /\ rxEof = FALSE
    /\ rxFrames = <<>>
    /\ delivered = <<>>
    /\ uiCalls = <<>>

\* No byte written or received yet.
WireIdle ==
    /\ outb = <<>>
    /\ RxIdle

\* What stop() and the components own: everything but the callers' own program
\* counters and the history variables.
progState == <<appRunning, recording, audioRunning, discRunning, netRunning,
               connections, socks, acc, accSock, dloop, pb, dlAddr, dlSock>>

NoSock == 0
NoAddr == "none"

\* ------------------------------------------------- the connection table

\* Python dict operations on the insertion-ordered table.
DictHas(d, k) == \E i \in 1..Len(d) : d[i].ip = k

DictGet(d, k) == d[CHOOSE i \in 1..Len(d) : d[i].ip = k].sock

\* d[k] = v: an existing key keeps its position, a new key is appended.
DictSet(d, k, v) ==
    IF DictHas(d, k)
    THEN [i \in 1..Len(d) |-> IF d[i].ip = k THEN [ip |-> k, sock |-> v] ELSE d[i]]
    ELSE Append(d, [ip |-> k, sock |-> v])

\* del d[k]
DictDel(d, k) == SelectSeq(d, LAMBDA e : e.ip # k)

DictKeys(d) == {d[i].ip : i \in 1..Len(d)}

DictValues(d) == {d[i].sock : i \in 1..Len(d)}

\* A socket as the manager sees it: the remote address, whether it is still
\* open locally, the state of its receiver thread and the
\* number of complete frames written to it.
\* rcv: "none"     no receiver was spawned
\*      "top"      at the loop test `while self.running`
\*      "read"     inside the loop body, blocked in _recv_exact
\*      "exitIO"   left the loop on a read failure, before taking the lock
\*      "exitStop" left the loop because running was false
\*      "done"     finished
NewSock(a) == [peer |-> a, open |-> TRUE, rcv |-> "none", tx |-> 0]

SockIds == 1..Len(socks)

SetRcv(ss, s, r) == [ss EXCEPT ![s].rcv = r]

CloseSock(ss, s) == [ss EXCEPT ![s].open = FALSE]

\* contextlib.suppress + conn.close() over every value of the table.
RECURSIVE CloseAll(_, _)
CloseAll(ss, d) ==
    IF d = <<>> THEN ss ELSE CloseAll(CloseSock(ss, Head(d).sock), Tail(d))

\* ------------------------------------------------------------------- init

Init ==
    /\ appRunning = FALSE
    /\ recording = FALSE
    /\ audioRunning = TRUE
    /\ discRunning = FALSE
    /\ useTailscale \in BOOLEAN
    /\ netRunning = FALSE
    /\ connections = <<>>
    /\ socks = <<>>
    /\ pc = [t \in Callers |-> IF t = "main" THEN "off" ELSE "idle"]
    /\ dlAddr = NoAddr
    /\ dlSock = NoSock
    /\ dlResult = "none"
    /\ acc = "off"
    /\ accSock = NoSock
    /\ dloop = [l \in DiscLoops |-> "off"]
    /\ pb = "loop"
    /\ sends = 0
    /\ netStopped = FALSE
    /\ quiet = "no"
    /\ WireIdle
    /\ DiscIdle
    /\ AudioIdle
    /\ PairIdle
    /\ SendIdle
    /\ PlayIdle
    /\ DgramIdle
    /\ VanishIdle
    /\ QueueIdle
    /\ LockIdle
    /\ SampleIdle

\* ------------------------------------------- Session Coordinator: start()

Touch == quiet' = "no"

\* app.py:88  self.running = True
StartFlag ==
    /\ pc["main"] = "off"
    /\ appRunning' = TRUE
    /\ pc' = [pc EXCEPT !["main"] = "st_disc"]
    /\ Touch
    /\ UNCHANGED <<recording, audioRunning, discRunning, useTailscale, netRunning,
                   connections, socks, dlAddr, dlSock, acc, accSock, dloop, pb,
                   sends, netStopped,
                   dlResult>>
    /\ UNCHANGED wireVars
    /\ UNCHANGED discVars
    /\ UNCHANGED audioVars
    /\ UNCHANGED pairVars
    /\ UNCHANGED sendVars
    /\ UNCHANGED playVars
    /\ UNCHANGED dgramVars
    /\ UNCHANGED vanishVars
    /\ UNCHANGED queueVars
    /\ UNCHANGED sampleVars
    /\ UNCHANGED lockVars

\* app.py:91  self.discovery.start(): set the flag, spawn the strategy's loops
\* and, in both strategies, the cleanup loop.
StartDiscovery ==
    /\ pc["main"] = "st_disc"
    /\ discRunning' = TRUE
    /\ dloop' = [l \in DiscLoops |->
                   IF \/ l = "cleanup"
                      \/ (useTailscale /\ l = "tailscale")
                      \/ (~useTailscale /\ l \in {"announce", "listen"})
                   THEN "run" ELSE dloop[l]]
    /\ pc' = [pc EXCEPT !["main"] = "st_net"]
    /\ Touch
    /\ UNCHANGED <<appRunning, recording, audioRunning, useTailscale, netRunning,
                   connections, socks, dlAddr, dlSock, acc, accSock, pb, sends,
                   netStopped,
                   dlResult>>
    /\ UNCHANGED wireVars
    /\ UNCHANGED discVars
    /\ UNCHANGED audioVars
    /\ UNCHANGED pairVars
    /\ UNCHANGED sendVars
    /\ UNCHANGED playVars
    /\ UNCHANGED dgramVars
    /\ UNCHANGED vanishVars
    /\ UNCHANGED queueVars
    /\ UNCHANGED sampleVars
    /\ UNCHANGED lockVars

\* app.py:94  self.network.start(): set the flag, spawn the accept thread.
StartNetwork ==
    /\ pc["main"] = "st_net"
    /\ netRunning' = TRUE
    /\ acc' = "top"
    /\ netStopped' = FALSE
    /\ pc' = [pc EXCEPT !["main"] = "st_rec"]
    /\ Touch
    /\ UNCHANGED <<appRunning, recording, audioRunning, discRunning, useTailscale,
                   connections, socks, dlAddr, dlSock, accSock, dloop, pb, sends,
                   dlResult>>
    /\ UNCHANGED wireVars
    /\ UNCHANGED discVars
    /\ UNCHANGED audioVars
    /\ UNCHANGED pairVars
    /\ UNCHANGED sendVars
    /\ UNCHANGED playVars
    /\ UNCHANGED dgramVars
    /\ UNCHANGED vanishVars
    /\ UNCHANGED queueVars
    /\ UNCHANGED sampleVars
    /\ UNCHANGED lockVars

\* app.py:97  self.audio.start_recording(); the main loop follows.
StartRecording ==
    /\ pc["main"] = "st_rec"
    /\ recording' = TRUE
    /\ pc' = [pc EXCEPT !["main"] = "top"]
    /\ Touch
    /\ UNCHANGED <<appRunning, audioRunning, discRunning, useTailscale, netRunning,
                   connections, socks, dlAddr, dlSock, acc, accSock, dloop, pb,
                   sends, netStopped,
                   dlResult>>
    /\ UNCHANGED wireVars
    /\ UNCHANGED discVars
    /\ UNCHANGED audioVars
    /\ UNCHANGED pairVars
    /\ UNCHANGED sendVars
    /\ UNCHANGED playVars
    /\ UNCHANGED dgramVars
    /\ UNCHANGED vanishVars
    /\ UNCHANGED queueVars
    /\ UNCHANGED sampleVars
    /\ UNCHANGED lockVars

\* ---------------------------------------------------- connect_to_peer

\* connect_to_peer without its locked test: every call dials.
AlreadyConnectedNever(d, a) == FALSE

\* The locked test of connect_to_peer: TRUE when the call returns at once.
AlreadyConnected(d, a) == DictHas(d, a)

\* app.py:110-115,130-138 and network_manager.py:123-126.  The main loop, its
\* running flag set, reconciles: connect_to_peer(a) for a discovered peer a.
\* Under the lock: if a is registered return True, else go on to dial.
ConnectBegin(a) ==
    /\ pc["main"] = "top"
    /\ appRunning
    /\ IF AlreadyConnected(connections, a)
       THEN /\ dlResult' = "already"
            /\ UNCHANGED <<pc, dlAddr>>
       ELSE /\ pc' = [pc EXCEPT !["main"] = "dialing"]
            /\ dlAddr' = a
            /\ dlResult' = "none"
    /\ Touch
    /\ UNCHANGED <<appRunning, recording, audioRunning, discRunning, useTailscale,
                   netRunning, connections, socks, dlSock, acc, accSock, dloop,
                   pb, sends, netStopped>>
    /\ UNCHANGED wireVars
    /\ UNCHANGED discVars
    /\ UNCHANGED audioVars
    /\ UNCHANGED pairVars
    /\ UNCHANGED sendVars
    /\ UNCHANGED playVars
    /\ UNCHANGED dgramVars
    /\ UNCHANGED vanishVars
    /\ UNCHANGED queueVars
    /\ UNCHANGED sampleVars
    /\ UNCHANGED lockVars

\* network_manager.py:129-131  the dial succeeds within its timeout.
DialOk ==
    /\ pc["main"] = "dialing"
    /\ socks' = Append(socks, NewSock(dlAddr))
    /\ dlSock' = Len(socks) + 1
    /\ pc' = [pc EXCEPT !["main"] = "gotsock"]
    /\ Touch
    /\ UNCHANGED <<appRunning, recording, audioRunning, discRunning, useTailscale,
                   netRunning, connections, dlAddr, acc, accSock, dloop, pb, sends,
                   netStopped,
                   dlResult>>
    /\ UNCHANGED wireVars
    /\ UNCHANGED discVars
    /\ UNCHANGED audioVars
    /\ UNCHANGED pairVars
    /\ UNCHANGED sendVars
    /\ UNCHANGED playVars
    /\ UNCHANGED dgramVars
    /\ UNCHANGED vanishVars
    /\ UNCHANGED queueVars
    /\ UNCHANGED sampleVars
    /\ UNCHANGED lockVars

\* network_manager.py:150-152  the dial raises: log, return False.
DialFail ==
    /\ pc["main"] = "dialing"
    /\ dlAddr' = NoAddr
    /\ dlResult' = "failed"
    /\ pc' = [pc EXCEPT !["main"] = "top"]
    /\ Touch
    /\ UNCHANGED <<appRunning, recording, audioRunning, discRunning, useTailscale,
                   netRunning, connections, socks, dlSock, acc, accSock, dloop, pb,
                   sends, netStopped>>
    /\ UNCHANGED wireVars
    /\ UNCHANGED discVars
    /\ UNCHANGED audioVars
    /\ UNCHANGED pairVars
    /\ UNCHANGED sendVars
    /\ UNCHANGED playVars
    /\ UNCHANGED dgramVars
    /\ UNCHANGED vanishVars
    /\ UNCHANGED queueVars
    /\ UNCHANGED sampleVars
    /\ UNCHANGED lockVars

\* The table after the dialled socket s is registered for a.
RegisterDialled(d, a, s) == DictSet(d, a, s)

\* network_manager.py:133-148  under the lock, connections[peer_ip] = sock;
\* then the receiver thread is started and the call returns True.
ConnectRegister ==
    /\ pc["main"] = "gotsock"
    /\ connections' = RegisterDialled(connections, dlAddr, dlSock)
    /\ socks' = SetRcv(socks, dlSock, "top")
    /\ dlAddr' = NoAddr
    /\ dlSock' = NoSock
    /\ dlResult' = "connected"
    /\ pc' = [pc EXCEPT !["main"] = "top"]
    /\ Touch
    /\ UNCHANGED <<appRunning, recording, audioRunning, discRunning, useTailscale,
                   netRunning, acc, accSock, dloop, pb, sends, netStopped>>
    /\ UNCHANGED wireVars
    /\ UNCHANGED discVars
    /\ UNCHANGED audioVars
    /\ UNCHANGED pairVars
    /\ UNCHANGED sendVars
    /\ UNCHANGED playVars
    /\ UNCHANGED dgramVars
    /\ UNCHANGED vanishVars
    /\ UNCHANGED queueVars
    /\ UNCHANGED sampleVars
    /\ UNCHANGED lockVars

\* ------------------------------------------------- _accept_connections

\* network_manager.py:87,113  the loop test; the thread ends when running is
\* false.
AcceptLoopCheck ==
    /\ acc = "top"
    /\ acc' = IF netRunning THEN "wait" ELSE "done"
    /\ Touch
    /\ UNCHANGED <<appRunning, recording, audioRunning, discRunning, useTailscale,
                   netRunning, connections, socks, pc, dlAddr, dlSock, accSock,
                   dloop, pb, sends, netStopped,
                   dlResult>>
    /\ UNCHANGED wireVars
    /\ UNCHANGED discVars
    /\ UNCHANGED audioVars
    /\ UNCHANGED pairVars
    /\ UNCHANGED sendVars
    /\ UNCHANGED playVars
    /\ UNCHANGED dgramVars
    /\ UNCHANGED vanishVars
    /\ UNCHANGED queueVars
    /\ UNCHANGED sampleVars
    /\ UNCHANGED lockVars

\* network_manager.py:107-108  accept() times out after one second.
AcceptTimeout ==
    /\ acc = "wait"
    /\ acc' = "top"
    /\ Touch
    /\ UNCHANGED <<appRunning, recording, audioRunning, discRunning, useTailscale,
                   netRunning, connections, socks, pc, dlAddr, dlSock, accSock,
                   dloop, pb, sends, netStopped,
                   dlResult>>
    /\ UNCHANGED wireVars
    /\ UNCHANGED discVars
    /\ UNCHANGED audioVars
    /\ UNCHANGED pairVars
    /\ UNCHANGED sendVars
    /\ UNCHANGED playVars
    /\ UNCHANGED dgramVars
    /\ UNCHANGED vanishVars
    /\ UNCHANGED queueVars
    /\ UNCHANGED sampleVars
    /\ UNCHANGED lockVars

\* network_manager.py:89-90  accept() returns a connection from address a.
AcceptConn(a) ==
    /\ acc = "wait"
    /\ socks' = Append(socks, NewSock(a))
    /\ accSock' = Len(socks) + 1
    /\ acc' = "got"
    /\ Touch
    /\ UNCHANGED <<appRunning, recording, audioRunning, discRunning, useTailscale,
                   netRunning, connections, pc, dlAddr, dlSock, dloop, pb, sends,
                   netStopped,
                   dlResult>>
    /\ UNCHANGED wireVars
    /\ UNCHANGED discVars
    /\ UNCHANGED audioVars
    /\ UNCHANGED pairVars
    /\ UNCHANGED sendVars
    /\ UNCHANGED playVars
    /\ UNCHANGED dgramVars
    /\ UNCHANGED vanishVars
    /\ UNCHANGED queueVars
    /\ UNCHANGED sampleVars
    /\ UNCHANGED lockVars

\* network_manager.py:92-105  under the lock: register the connection and
\* start its receiver if the address is not registered, else close it.
AcceptRegister ==
    /\ acc = "got"
    /\ IF ~DictHas(connections, socks[accSock].peer)
       THEN /\ connections' = DictSet(connections, socks[accSock].peer, accSock)
            /\ socks' = SetRcv(socks, accSock, "top")
       ELSE /\ socks' = CloseSock(socks, accSock)
            /\ UNCHANGED connections
    /\ accSock' = NoSock
    /\ acc' = "top"
    /\ Touch
    /\ UNCHANGED <<appRunning, recording, audioRunning, discRunning, useTailscale,
                   netRunning, pc, dlAddr, dlSock, dloop, pb, sends, netStopped,
                   dlResult>>
    /\ UNCHANGED wireVars
    /\ UNCHANGED discVars
    /\ UNCHANGED audioVars
    /\ UNCHANGED pairVars
    /\ UNCHANGED sendVars
    /\ UNCHANGED playVars
    /\ UNCHANGED dgramVars
    /\ UNCHANGED vanishVars
    /\ UNCHANGED queueVars
    /\ UNCHANGED sampleVars
    /\ UNCHANGED lockVars

\* --------------------------------------------------- _receive_from_peer

\* network_manager.py:164  the loop test.
RecvLoopCheck(s) ==
    /\ socks[s].rcv = "top"
    /\ socks' = SetRcv(socks, s, IF netRunning THEN "read" ELSE "exitStop")
    /\ Touch
    /\ UNCHANGED <<appRunning, recording, audioRunning, discRunning, useTailscale,
                   netRunning, connections, pc, dlAddr, dlSock, acc, accSock,
                   dloop, pb, sends, netStopped,
                   dlResult>>
    /\ UNCHANGED wireVars
    /\ UNCHANGED discVars
    /\ UNCHANGED audioVars
    /\ UNCHANGED pairVars
    /\ UNCHANGED sendVars
    /\ UNCHANGED playVars
    /\ UNCHANGED dgramVars
    /\ UNCHANGED vanishVars
    /\ UNCHANGED queueVars
    /\ UNCHANGED sampleVars
    /\ UNCHANGED lockVars

\* network_manager.py:166-197  a whole frame is read from the open socket and
\* handed to its callback.
RecvFrame(s) ==
    /\ socks[s].rcv = "read"
    /\ socks[s].open
    /\ socks' = SetRcv(socks, s, "top")
    /\ Touch
    /\ UNCHANGED <<appRunning, recording, audioRunning, discRunning, useTailscale,
                   netRunning, connections, pc, dlAddr, dlSock, acc, accSock,
                   dloop, pb, sends, netStopped,
                   dlResult>>
    /\ UNCHANGED wireVars
    /\ UNCHANGED discVars
    /\ UNCHANGED audioVars
    /\ UNCHANGED pairVars
    /\ UNCHANGED sendVars
    /\ UNCHANGED playVars
    /\ UNCHANGED dgramVars
    /\ UNCHANGED vanishVars
    /\ UNCHANGED queueVars
    /\ UNCHANGED sampleVars
    /\ UNCHANGED lockVars

\* network_manager.py:168-183,199-201  a read ends the loop: end of stream, a
\* socket error, the dialled socket's timeout, or the socket closed locally.
RecvFail(s) ==
    /\ socks[s].rcv = "read"
    /\ socks' = SetRcv(socks, s, "exitIO")
    /\ Touch
    /\ UNCHANGED <<appRunning, recording, audioRunning, discRunning, useTailscale,
                   netRunning, connections, pc, dlAddr, dlSock, acc, accSock,
                   dloop, pb, sends, netStopped,
                   dlResult>>
    /\ UNCHANGED wireVars
    /\ UNCHANGED discVars
    /\ UNCHANGED audioVars
    /\ UNCHANGED pairVars
    /\ UNCHANGED sendVars
    /\ UNCHANGED playVars
    /\ UNCHANGED dgramVars
    /\ UNCHANGED vanishVars
    /\ UNCHANGED queueVars
    /\ UNCHANGED sampleVars
    /\ UNCHANGED lockVars

\* A receiver's exit that leaves the table as it is.
DeregisterNothing(d, a, s) == d

\* The table after the receiver of socket s, connected to a, deregisters.
Deregister(d, a, s) == IF DictHas(d, a) THEN DictDel(d, a) ELSE d

\* network_manager.py:203-210  the receiver's exit: under the lock, delete the
\* table entry of peer_ip; then conn.close().  The close is taken in the same
\* step: it touches only this socket, which is no longer in the table, so no
\* other thread's step depends on whether it has happened yet.
RecvExit(s) ==
    /\ socks[s].rcv \in {"exitIO", "exitStop"}
    /\ connections' = Deregister(connections, socks[s].peer, s)
    /\ socks' = [socks EXCEPT ![s].open = FALSE, ![s].rcv = "done"]
    /\ Touch
    /\ UNCHANGED <<appRunning, recording, audioRunning, discRunning, useTailscale,
                   netRunning, pc, dlAddr, dlSock, acc, accSock, dloop, pb, sends,
                   netStopped,
                   dlResult>>
    /\ UNCHANGED wireVars
    /\ UNCHANGED discVars
    /\ UNCHANGED audioVars
    /\ UNCHANGED pairVars
    /\ UNCHANGED sendVars
    /\ UNCHANGED playVars
    /\ UNCHANGED dgramVars
    /\ UNCHANGED vanishVars
    /\ UNCHANGED queueVars
    /\ UNCHANGED sampleVars
    /\ UNCHANGED lockVars

\* --------------------------------------------------------- _send_packet

\* The send loop without the per-peer try/except: the first write that raises
\* ends the loop, and the peers after it in the table are not written.
RECURSIVE SendLoopAbort(_, _, _)
SendLoopAbort(d, failing, res) ==
    IF d = <<>> THEN res
    ELSE IF Head(d).sock \in failing
         THEN [res EXCEPT !.disconnected = Append(@, Head(d).ip)]
         ELSE SendLoopAbort(Tail(d), failing,
                            [res EXCEPT !.written = @ \cup {Head(d).sock}])

\* network_manager.py:276-283  the loop over connections.items(): sendall to
\* each peer in table order; a peer whose write raises is appended to
\* `disconnected` and the loop goes on.  failing is the set of sockets whose
\* sendall raises; res collects the sockets written and the list of removals.
RECURSIVE SendLoop(_, _, _)
SendLoop(d, failing, res) ==
    IF d = <<>> THEN res
    ELSE IF Head(d).sock \in failing
         THEN SendLoop(Tail(d), failing,
                       [res EXCEPT !.disconnected = Append(@, Head(d).ip)])
         ELSE SendLoop(Tail(d), failing,
                       [res EXCEPT !.written = @ \cup {Head(d).sock}])

\* network_manager.py:285-287  for peer_ip in disconnected: del connections[peer_ip]
RECURSIVE RemoveAll(_, _)
RemoveAll(d, ks) ==
    IF ks = <<>> THEN d ELSE RemoveAll(DictDel(d, Head(ks)), Tail(ks))

\* The sockets a write can fail on: any registered one (the peer reset the
\* connection, the route is gone, the send timed out); a socket that is closed
\* locally always fails.
FailSets ==
    {F \in SUBSET DictValues(connections) :
        \A s \in DictValues(connections) : ~socks[s].open => s \in F}

\* network_manager.py:260-287  _send_packet with a non-empty payload, the whole
\* locked region, with the writes failing on F.
SendPacket(F) ==
    LET res == SendLoop(connections, F, [written |-> {}, disconnected |-> <<>>])
    IN  /\ sends' = sends + 1
        /\ socks' = [s \in SockIds |->
                       IF s \in res.written
                       THEN [socks[s] EXCEPT !.tx = @ + 1] ELSE socks[s]]
        /\ connections' = RemoveAll(connections, res.disconnected)

\* app.py:118-121  the capture tick of the main loop: a voiced frame is
\* captured and broadcast with send_audio.
MainTick(F) ==
    /\ pc["main"] = "top"
    /\ appRunning
    /\ recording
    /\ SendPacket(F)
    /\ Touch
    /\ UNCHANGED <<appRunning, recording, audioRunning, discRunning, useTailscale,
                   netRunning, pc, dlAddr, dlSock, acc, accSock, dloop, pb,
                   netStopped,
                   dlResult>>
    /\ UNCHANGED wireVars
    /\ UNCHANGED discVars
    /\ UNCHANGED audioVars
    /\ UNCHANGED pairVars
    /\ UNCHANGED sendVars
    /\ UNCHANGED playVars
    /\ UNCHANGED dgramVars
    /\ UNCHANGED vanishVars
    /\ UNCHANGED queueVars
    /\ UNCHANGED sampleVars
    /\ UNCHANGED lockVars

\* app.py:75-84  send_message from the UI thread: send_text, _send_packet.
UiSend(F) ==
    /\ pc["ui"] = "idle"
    /\ SendPacket(F)
    /\ Touch
    /\ UNCHANGED <<appRunning, recording, audioRunning, discRunning, useTailscale,
                   netRunning, pc, dlAddr, dlSock, acc, accSock, dloop, pb,
                   netStopped,
                   dlResult>>
    /\ UNCHANGED wireVars
    /\ UNCHANGED discVars
    /\ UNCHANGED audioVars
    /\ UNCHANGED pairVars
    /\ UNCHANGED sendVars
    /\ UNCHANGED playVars
    /\ UNCHANGED dgramVars
    /\ UNCHANGED vanishVars
    /\ UNCHANGED queueVars
    /\ UNCHANGED sampleVars
    /\ UNCHANGED lockVars

\* ------------------------------------------------------------- stop()

\* The UI thread calls VoiceP2PChat.stop().
UiCallStop ==
    /\ pc["ui"] = "idle"
    /\ pc' = [pc EXCEPT !["ui"] = "stop1"]
    /\ quiet' = IF quiet = "done" THEN "done" ELSE "running"
    /\ UNCHANGED <<appRunning, recording, audioRunning, discRunning, useTailscale,
                   netRunning, connections, socks, dlAddr, dlSock, acc, accSock,
                   dloop, pb, sends, netStopped,
                   dlResult>>
    /\ UNCHANGED wireVars
    /\ UNCHANGED discVars
    /\ UNCHANGED audioVars
    /\ UNCHANGED pairVars
    /\ UNCHANGED sendVars
    /\ UNCHANGED playVars
    /\ UNCHANGED dgramVars
    /\ UNCHANGED vanishVars
    /\ UNCHANGED queueVars
    /\ UNCHANGED sampleVars
    /\ UNCHANGED lockVars

\* app.py:110,127-128  the main loop finds running false and leaves; the
\* finally clause calls self.stop().
MainExit ==
    /\ pc["main"] = "top"
    /\ ~appRunning
    /\ pc' = [pc EXCEPT !["main"] = "stop1"]
    /\ quiet' = IF quiet = "done" THEN "done" ELSE "running"
    /\ UNCHANGED <<appRunning, recording, audioRunning, discRunning, useTailscale,
                   netRunning, connections, socks, dlAddr, dlSock, acc, accSock,
                   dloop, pb, sends, netStopped,
                   dlResult>>
    /\ UNCHANGED wireVars
    /\ UNCHANGED discVars
    /\ UNCHANGED audioVars
    /\ UNCHANGED pairVars
    /\ UNCHANGED sendVars
    /\ UNCHANGED playVars
    /\ UNCHANGED dgramVars
    /\ UNCHANGED vanishVars
    /\ UNCHANGED queueVars
    /\ UNCHANGED sampleVars
    /\ UNCHANGED lockVars

\* A stop() that goes on to stop capture without clearing the coordinator's
\* running flag first.
StopFlagSkipped(t) ==
    /\ pc[t] = "stop1"
    /\ pc' = [pc EXCEPT ![t] = "stop2"]
    /\ UNCHANGED <<appRunning, recording, audioRunning, discRunning, useTailscale,
                   netRunning, connections, socks, dlAddr, dlSock, acc, accSock,
                   dloop, pb, sends, netStopped, quiet, dlResult>>
    /\ UNCHANGED wireVars
    /\ UNCHANGED discVars
    /\ UNCHANGED audioVars
    /\ UNCHANGED pairVars
    /\ UNCHANGED sendVars
    /\ UNCHANGED playVars
    /\ UNCHANGED dgramVars
    /\ UNCHANGED vanishVars
    /\ UNCHANGED queueVars
    /\ UNCHANGED sampleVars
    /\ UNCHANGED lockVars

\* app.py:142  self.running = False
StopFlag(t) ==
    /\ pc[t] = "stop1"
    /\ appRunning' = FALSE
    /\ pc' = [pc EXCEPT ![t] = "stop2"]
    /\ UNCHANGED <<recording, audioRunning, discRunning, useTailscale, netRunning,
                   connections, socks, dlAddr, dlSock, acc, accSock, dloop, pb,
                   sends, netStopped, quiet,
                   dlResult>>
    /\ UNCHANGED wireVars
    /\ UNCHANGED discVars
    /\ UNCHANGED audioVars
    /\ UNCHANGED pairVars
    /\ UNCHANGED sendVars
    /\ UNCHANGED playVars
    /\ UNCHANGED dgramVars
    /\ UNCHANGED vanishVars
    /\ UNCHANGED queueVars
    /\ UNCHANGED sampleVars
    /\ UNCHANGED lockVars

\* app.py:146, audio_handler.py:211-214  self.audio.stop_recording()
StopRecording(t) ==
    /\ pc[t] = "stop2"
    /\ recording' = FALSE
    /\ pc' = [pc EXCEPT ![t] = "stop3"]
    /\ UNCHANGED <<appRunning, audioRunning, discRunning, useTailscale, netRunning,
                   connections, socks, dlAddr, dlSock, acc, accSock, dloop, pb,
                   sends, netStopped, quiet,
                   dlResult>>
    /\ UNCHANGED wireVars
    /\ UNCHANGED discVars
    /\ UNCHANGED audioVars
    /\ UNCHANGED pairVars
    /\ UNCHANGED sendVars
    /\ UNCHANGED playVars
    /\ UNCHANGED dgramVars
    /\ UNCHANGED vanishVars
    /\ UNCHANGED queueVars
    /\ UNCHANGED sampleVars
    /\ UNCHANGED lockVars

\* app.py:147, network_manager.py:65  NetworkManager.stop(): self.running = False
NetStopFlag(t) ==
    /\ pc[t] = "stop3"
    /\ netRunning' = FALSE
    /\ pc' = [pc EXCEPT ![t] = "stop4"]
    /\ UNCHANGED <<appRunning, recording, audioRunning, discRunning, useTailscale,
                   connections, socks, dlAddr, dlSock, acc, accSock, dloop, pb,
                   sends, netStopped, quiet,
                   dlResult>>
    /\ UNCHANGED wireVars
    /\ UNCHANGED discVars
    /\ UNCHANGED audioVars
    /\ UNCHANGED pairVars
    /\ UNCHANGED sendVars
    /\ UNCHANGED playVars
    /\ UNCHANGED dgramVars
    /\ UNCHANGED vanishVars
    /\ UNCHANGED queueVars
    /\ UNCHANGED sampleVars
    /\ UNCHANGED lockVars

\* NetworkManager.stop() that closes and removes only the first entry of the
\* table on each call.
StopClearFirstOnly(ss, d) ==
    IF d = <<>> THEN [socks |-> ss, connections |-> d]
    ELSE [socks |-> CloseSock(ss, d[1].sock), connections |-> Tail(d)]

\* The sockets and the table after the locked region of NetworkManager.stop():
\* every registered socket closed, the table cleared.
StopClear(ss, d) == [socks |-> CloseAll(ss, d), connections |-> <<>>]

\* network_manager.py:67-75  under the lock; then stop() returns.
NetStopClear(t) ==
    /\ pc[t] = "stop4"
    /\ socks' = StopClear(socks, connections).socks
    /\ connections' = StopClear(socks, connections).connections
    /\ netStopped' = TRUE
    /\ pc' = [pc EXCEPT ![t] = "stop5"]
    /\ UNCHANGED <<appRunning, recording, audioRunning, discRunning, useTailscale,
                   netRunning, dlAddr, dlSock, acc, accSock, dloop, pb, sends,
                   quiet,
                   dlResult>>
    /\ UNCHANGED wireVars
    /\ UNCHANGED discVars
    /\ UNCHANGED audioVars
    /\ UNCHANGED pairVars
    /\ UNCHANGED sendVars
    /\ UNCHANGED playVars
    /\ UNCHANGED dgramVars
    /\ UNCHANGED vanishVars
    /\ UNCHANGED queueVars
    /\ UNCHANGED sampleVars
    /\ UNCHANGED lockVars

\* app.py:148-150, peer_discovery.py:156-159  self.discovery.stop(); stop()
\* returns.
DiscStop(t) ==
    /\ pc[t] = "stop5"
    /\ discRunning' = FALSE
    /\ pc' = [pc EXCEPT ![t] = IF t = "main" THEN "done" ELSE "idle"]
    /\ quiet' = IF quiet = "no" THEN "no" ELSE "done"
    /\ UNCHANGED <<appRunning, recording, audioRunning, useTailscale, netRunning,
                   connections, socks, dlAddr, dlSock, acc, accSock, dloop, pb,
                   sends, netStopped,
                   dlResult>>
    /\ UNCHANGED wireVars
    /\ UNCHANGED discVars
    /\ UNCHANGED audioVars
    /\ UNCHANGED pairVars
    /\ UNCHANGED sendVars
    /\ UNCHANGED playVars
    /\ UNCHANGED dgramVars
    /\ UNCHANGED vanishVars
    /\ UNCHANGED queueVars
    /\ UNCHANGED sampleVars
    /\ UNCHANGED lockVars

StopStep(t) ==
    \/ StopFlag(t)
    \/ StopRecording(t)
    \/ NetStopFlag(t)
    \/ NetStopClear(t)
    \/ DiscStop(t)

\* ------------------------------------------- discovery and playback loops

\* peer_discovery.py:163,202,227,254  a discovery loop finds running false at
\* its loop test and ends.
DiscLoopExit(l) ==
    /\ dloop[l] = "run"
    /\ ~discRunning
    /\ dloop' = [dloop EXCEPT ![l] = "done"]
    /\ Touch
    /\ UNCHANGED <<appRunning, recording, audioRunning, discRunning, useTailscale,
                   netRunning, connections, socks, pc, dlAddr, dlSock, acc,
                   accSock, pb, sends, netStopped,
                   dlResult>>
    /\ UNCHANGED wireVars
    /\ UNCHANGED discVars
    /\ UNCHANGED audioVars
    /\ UNCHANGED pairVars
    /\ UNCHANGED sendVars
    /\ UNCHANGED playVars
    /\ UNCHANGED dgramVars
    /\ UNCHANGED vanishVars
    /\ UNCHANGED queueVars
    /\ UNCHANGED sampleVars
    /\ UNCHANGED lockVars

\* audio_handler.py:485-490  AudioHandler._cleanup() clears the playback flag.
\* Nothing in start() or stop() calls it: it runs from __del__ (or from a host
\* program that calls it), once the session has ended.
AudioCleanup ==
    /\ pc["main"] = "done"
    /\ audioRunning
    /\ audioRunning' = FALSE
    /\ Touch
    /\ UNCHANGED <<appRunning, recording, discRunning, useTailscale, netRunning,
                   connections, socks, pc, dlAddr, dlSock, acc, accSock, dloop,
                   pb, sends, netStopped,
                   dlResult>>
    /\ UNCHANGED wireVars
    /\ UNCHANGED discVars
    /\ UNCHANGED audioVars
    /\ UNCHANGED pairVars
    /\ UNCHANGED sendVars
    /\ UNCHANGED playVars
    /\ UNCHANGED dgramVars
    /\ UNCHANGED vanishVars
    /\ UNCHANGED queueVars
    /\ UNCHANGED sampleVars
    /\ UNCHANGED lockVars

\* audio_handler.py:313,386  the playback loop finds running false and ends.
PlaybackExit ==
    /\ pb = "loop"
    /\ ~audioRunning
    /\ pb' = "done"
    /\ Touch
    /\ UNCHANGED <<appRunning, recording, audioRunning, discRunning, useTailscale,
                   netRunning, connections, socks, pc, dlAddr, dlSock, acc,
                   accSock, dloop, sends, netStopped,
                   dlResult>>
    /\ UNCHANGED wireVars
    /\ UNCHANGED discVars
    /\ UNCHANGED audioVars
    /\ UNCHANGED pairVars
    /\ UNCHANGED sendVars
    /\ UNCHANGED playVars
    /\ UNCHANGED dgramVars
    /\ UNCHANGED vanishVars
    /\ UNCHANGED queueVars
    /\ UNCHANGED sampleVars
    /\ UNCHANGED lockVars

\* ------------------------------------------------------ the Peer Table

PeerHas(pt, k) == \E i \in 1..Len(pt) : pt[i].ip = k

PeerKeys(pt) == {pt[i].ip : i \in 1..Len(pt)}

PeerGet(pt, k) == pt[CHOOSE i \in 1..Len(pt) : pt[i].ip = k]

\* self.peers[k] = rec: an existing key keeps its position, a new key goes to
\* the end and the dict grows by one.
PeerSet(pt, k, rec) ==
    IF PeerHas(pt, k)
    THEN [i \in 1..Len(pt) |-> IF pt[i].ip = k THEN rec ELSE pt[i]]
    ELSE Append(pt, rec)

\* del self.peers[k]
PeerDel(pt, k) == SelectSeq(pt, LAMBDA e : e.ip # k)

\* The display name a node at address a announces (the HostName the overlay
\* reports for it).
UserOf(a) ==
    IF a = "10.0.0.1" THEN "me" ELSE IF a = "10.0.0.2" THEN "alice" ELSE "bob"

\* The record stored for an announcement of address a made at time at.
PeerRecord(a, at) == [ip |-> a, username |-> UserOf(a), last_seen |-> at]

\* One second passes.
Tick ==
    /\ now < MaxTime
    /\ now' = now + 1
    /\ Touch
    /\ UNCHANGED <<appRunning, recording, audioRunning, discRunning, useTailscale,
                   netRunning, connections, socks, pc, dlAddr, dlSock, dlResult,
                   acc, accSock, dloop, pb, sends, netStopped>>
    /\ UNCHANGED wireVars
    /\ UNCHANGED audioVars
    /\ UNCHANGED pairVars
    /\ UNCHANGED sendVars
    /\ UNCHANGED playVars
    /\ UNCHANGED dgramVars
    /\ UNCHANGED vanishVars
    /\ UNCHANGED queueVars
    /\ UNCHANGED sampleVars
    /\ UNCHANGED lockVars
    /\ UNCHANGED <<peers, clTime, clIter, clRemove, tsIns, tsDel, heard>>

\* --------------------------------------------- Strategy A: _listen_loop

\* peer_discovery.py:233-234  if peer_ip == self.local_ip: continue
OwnAnnouncement(peer_ip) == peer_ip = LocalIp

\* peer_discovery.py:227-243  one iteration of the listen loop that receives a
\* well-formed announcement naming address peer_ip: the node's own is skipped,
\* any other is stored with last_seen = time.time().
ListenDatagram(peer_ip) ==
    /\ dloop["listen"] = "run"
    /\ discRunning
    /\ IF OwnAnnouncement(peer_ip)
       THEN UNCHANGED <<peers, heard>>
       ELSE /\ peers' = PeerSet(peers, peer_ip, PeerRecord(peer_ip, now))
            /\ heard' = [heard EXCEPT ![peer_ip] = now]
    /\ Touch
    /\ UNCHANGED <<appRunning, recording, audioRunning, discRunning, useTailscale,
                   netRunning, connections, socks, pc, dlAddr, dlSock, dlResult,
                   acc, accSock, dloop, pb, sends, netStopped>>
    /\ UNCHANGED wireVars
    /\ UNCHANGED audioVars
    /\ UNCHANGED pairVars
    /\ UNCHANGED sendVars
    /\ UNCHANGED playVars
    /\ UNCHANGED dgramVars
    /\ UNCHANGED vanishVars
    /\ UNCHANGED queueVars
    /\ UNCHANGED sampleVars
    /\ UNCHANGED lockVars
    /\ UNCHANGED <<now, clTime, clIter, clRemove, tsIns, tsDel>>

\* ------------------------------------------------------ _cleanup_loop

\* peer_discovery.py:254-258  the loop test passes; current_time is read,
\* to_remove is emptied and the iteration over self.peers.items() begins.
CleanupBegin ==
    /\ dloop["cleanup"] = "run"
    /\ discRunning
    /\ clTime' = now
    /\ clRemove' = <<>>
    /\ clIter' = [pos |-> 0, size |-> Len(peers)]
    /\ dloop' = [dloop EXCEPT !["cleanup"] = "scan"]
    /\ Touch
    /\ UNCHANGED <<appRunning, recording, audioRunning, discRunning, useTailscale,
                   netRunning, connections, socks, pc, dlAddr, dlSock, dlResult,
                   acc, accSock, pb, sends, netStopped>>
    /\ UNCHANGED wireVars
    /\ UNCHANGED audioVars
    /\ UNCHANGED pairVars
    /\ UNCHANGED sendVars
    /\ UNCHANGED playVars
    /\ UNCHANGED dgramVars
    /\ UNCHANGED vanishVars
    /\ UNCHANGED queueVars
    /\ UNCHANGED sampleVars
    /\ UNCHANGED lockVars
    /\ UNCHANGED <<peers, now, tsIns, tsDel, heard>>

\* peer_discovery.py:259  the aging test of one record.
Expired(current_time, info) == current_time - info.last_seen > PEER_TIMEOUT

\* peer_discovery.py:258-260  one step of the iteration.  The dict iterator
\* raises RuntimeError when the dict's size differs from the size it had when
\* the iteration began; the loop has no exception handler, so the thread ends.
\* Otherwise the next record is tested, or the iteration is over.
CleanupScan ==
    /\ dloop["cleanup"] = "scan"
    /\ IF Len(peers) # clIter.size
       THEN /\ dloop' = [dloop EXCEPT !["cleanup"] = "dead"]
            /\ UNCHANGED <<clIter, clRemove>>
       ELSE IF clIter.pos >= Len(peers)
       THEN /\ dloop' = [dloop EXCEPT !["cleanup"] = "del"]
            /\ UNCHANGED <<clIter, clRemove>>
       ELSE /\ clIter' = [clIter EXCEPT !.pos = @ + 1]
            /\ clRemove' = IF Expired(clTime, peers[clIter.pos + 1])
                           THEN Append(clRemove, peers[clIter.pos + 1].ip)
                           ELSE clRemove
            /\ UNCHANGED dloop
    /\ Touch
    /\ UNCHANGED <<appRunning, recording, audioRunning, discRunning, useTailscale,
                   netRunning, connections, socks, pc, dlAddr, dlSock, dlResult,
                   acc, accSock, pb, sends, netStopped>>
    /\ UNCHANGED wireVars
    /\ UNCHANGED audioVars
    /\ UNCHANGED pairVars
    /\ UNCHANGED sendVars
    /\ UNCHANGED playVars
    /\ UNCHANGED dgramVars
    /\ UNCHANGED vanishVars
    /\ UNCHANGED queueVars
    /\ UNCHANGED sampleVars
    /\ UNCHANGED lockVars
    /\ UNCHANGED <<peers, now, clTime, tsIns, tsDel, heard>>

\* peer_discovery.py:262-267  one removal: self.peers[peer_ip]['username'] is
\* read (KeyError, uncaught, if the key is gone) and the record deleted; with
\* nothing left to remove the loop sleeps and returns to its test.
CleanupDelete ==
    /\ dloop["cleanup"] = "del"
    /\ IF clRemove = <<>>
       THEN /\ dloop' = [dloop EXCEPT !["cleanup"] = "run"]
            /\ UNCHANGED <<peers, clRemove>>
       ELSE IF ~PeerHas(peers, Head(clRemove))
       THEN /\ dloop' = [dloop EXCEPT !["cleanup"] = "dead"]
            /\ UNCHANGED <<peers, clRemove>>
       ELSE /\ peers' = PeerDel(peers, Head(clRemove))
            /\ clRemove' = Tail(clRemove)
            /\ UNCHANGED dloop
    /\ Touch
    /\ UNCHANGED <<appRunning, recording, audioRunning, discRunning, useTailscale,
                   netRunning, connections, socks, pc, dlAddr, dlSock, dlResult,
                   acc, accSock, pb, sends, netStopped>>
    /\ UNCHANGED wireVars
    /\ UNCHANGED audioVars
    /\ UNCHANGED pairVars
    /\ UNCHANGED sendVars
    /\ UNCHANGED playVars
    /\ UNCHANGED dgramVars
    /\ UNCHANGED vanishVars
    /\ UNCHANGED queueVars
    /\ UNCHANGED sampleVars
    /\ UNCHANGED lockVars
    /\ UNCHANGED <<now, clTime, clIter, tsIns, tsDel, heard>>

\* ------------------------------- Strategy B: _tailscale_discovery_loop

\* peer_discovery.py:99-126  the keys of the dict _get_tailscale_peers builds
\* from the overlay's status, online being the addresses of its online
\* entries: the node's own address is left out.
TailscalePeers(online) == {a \in online : a # LocalIp}

\* peer_discovery.py:163-165  the loop test passes and the overlay is asked for
\* its status; every record of the answer gets last_seen = time.time().
TsFetch(online) ==
    /\ dloop["tailscale"] = "run"
    /\ discRunning
    /\ tsIns' = [res |-> TailscalePeers(online), todo |-> TailscalePeers(online),
                 at |-> now, failed |-> FALSE]
    /\ dloop' = [dloop EXCEPT !["tailscale"] = "ins"]
    /\ Touch
    /\ UNCHANGED <<appRunning, recording, audioRunning, discRunning, useTailscale,
                   netRunning, connections, socks, pc, dlAddr, dlSock, dlResult,
                   acc, accSock, pb, sends, netStopped>>
    /\ UNCHANGED wireVars
    /\ UNCHANGED audioVars
    /\ UNCHANGED pairVars
    /\ UNCHANGED sendVars
    /\ UNCHANGED playVars
    /\ UNCHANGED dgramVars
    /\ UNCHANGED vanishVars
    /\ UNCHANGED queueVars
    /\ UNCHANGED sampleVars
    /\ UNCHANGED lockVars
    /\ UNCHANGED <<peers, now, clTime, clIter, clRemove, tsDel, heard>>

\* peer_discovery.py:168-177  one record of the answer is stored; after the
\* last, removed_peers = set(self.peers.keys()) - set(tailscale_peers.keys()).
TsInsert ==
    /\ dloop["tailscale"] = "ins"
    /\ IF tsIns.todo = {}
       THEN /\ tsDel' = PeerKeys(peers) \ tsIns.res
            /\ dloop' = [dloop EXCEPT !["tailscale"] = "del"]
            /\ UNCHANGED <<peers, tsIns>>
       ELSE \E a \in tsIns.todo :
            /\ peers' = PeerSet(peers, a, PeerRecord(a, tsIns.at))
            /\ tsIns' = [tsIns EXCEPT !.todo = @ \ {a}]
            /\ UNCHANGED <<tsDel, dloop>>
    /\ Touch
    /\ UNCHANGED <<appRunning, recording, audioRunning, discRunning, useTailscale,
                   netRunning, connections, socks, pc, dlAddr, dlSock, dlResult,
                   acc, accSock, pb, sends, netStopped>>
    /\ UNCHANGED wireVars
    /\ UNCHANGED audioVars
    /\ UNCHANGED pairVars
    /\ UNCHANGED sendVars
    /\ UNCHANGED playVars
    /\ UNCHANGED dgramVars
    /\ UNCHANGED vanishVars
    /\ UNCHANGED queueVars
    /\ UNCHANGED sampleVars
    /\ UNCHANGED lockVars
    /\ UNCHANGED <<now, clTime, clIter, clRemove, heard>>

\* peer_discovery.py:179-187  one removal: self.peers[peer_ip]['username'] is
\* read and the record deleted; a KeyError is caught by the loop's handler,
\* which ends the round.  Then the loop sleeps and returns to its test.
TsDelete ==
    /\ dloop["tailscale"] = "del"
    /\ IF tsDel = {}
       THEN /\ dloop' = [dloop EXCEPT !["tailscale"] = "run"]
            /\ UNCHANGED <<peers, tsDel>>
       ELSE \E a \in tsDel :
            IF PeerHas(peers, a)
            THEN /\ peers' = PeerDel(peers, a)
                 /\ tsDel' = tsDel \ {a}
                 /\ UNCHANGED dloop
            ELSE /\ dloop' = [dloop EXCEPT !["tailscale"] = "run"]
                 /\ tsDel' = {}
                 /\ UNCHANGED peers
    /\ Touch
    /\ UNCHANGED <<appRunning, recording, audioRunning, discRunning, useTailscale,
                   netRunning, connections, socks, pc, dlAddr, dlSock, dlResult,
                   acc, accSock, pb, sends, netStopped>>
    /\ UNCHANGED wireVars
    /\ UNCHANGED audioVars
    /\ UNCHANGED pairVars
    /\ UNCHANGED sendVars
    /\ UNCHANGED playVars
    /\ UNCHANGED dgramVars
    /\ UNCHANGED vanishVars
    /\ UNCHANGED queueVars
    /\ UNCHANGED sampleVars
    /\ UNCHANGED lockVars
    /\ UNCHANGED <<now, clTime, clIter, clRemove, tsIns, heard>>

\* ---------------------------------------------- discovery specification

\* The Discovery Engine from construction on: start(), then the loops of the
\* strategy chosen at construction and the aging loop, while time passes and
\* the network and the overlay deliver any announcements and answers.
DiscNext ==
    \/ StartFlag
    \/ StartDiscovery
    \/ StartNetwork
    \/ StartRecording
    \/ Tick
    \/ \E peer_ip \in AllAddrs : ListenDatagram(peer_ip)
    \/ CleanupBegin
    \/ CleanupScan
    \/ CleanupDelete
    \/ \E online \in SUBSET AllAddrs : TsFetch(online)
    \/ TsInsert
    \/ TsDelete

DiscSpec == Init /\ [][DiscNext]_vars

\* The same node with its accept thread: inbound connections from any address.
PeerNext ==
    \/ DiscNext
    \/ AcceptLoopCheck
    \/ AcceptTimeout
    \/ \E a \in AllAddrs : Len(socks) < NodeSocks /\ AcceptConn(a)
    \/ AcceptRegister

PeerSpec == Init /\ [][PeerNext]_vars

\* ------------------------------------------------------- specification

\* The node after VoiceP2PChat.start() has run up to its main loop
\* (app.py:88-104): every flag set, the accept thread and the discovery loops
\* spawned, no connection yet.
StartedNode ==
    /\ appRunning = TRUE
    /\ recording = TRUE
    /\ audioRunning = TRUE
    /\ discRunning = TRUE
    /\ useTailscale = FALSE
    /\ netRunning = TRUE
    /\ pc = [t \in Callers |-> IF t = "main" THEN "top" ELSE "idle"]
    /\ dlAddr = NoAddr
    /\ dlSock = NoSock
    /\ dlResult = "none"
    /\ acc = "top"
    /\ accSock = NoSock
    /\ dloop = [l \in DiscLoops |-> IF l = "tailscale" THEN "off" ELSE "run"]
    /\ pb = "loop"
    /\ sends = 0
    /\ netStopped = FALSE
    /\ quiet = "no"

InitStarted ==
    /\ StartedNode
    /\ connections = <<>>
    /\ socks = <<>>
    /\ WireIdle
    /\ DiscIdle
    /\ AudioIdle
    /\ PairIdle
    /\ SendIdle
    /\ PlayIdle
    /\ DgramIdle
    /\ VanishIdle
    /\ QueueIdle
    /\ LockIdle
    /\ SampleIdle

Receiver(s) ==
    \/ RecvLoopCheck(s)
    \/ RecvFrame(s)
    \/ RecvFail(s)
    \/ RecvExit(s)

\* The Connection Manager of a started node without broadcasts: the main
\* loop's reconciliation dials, stop() called from the UI thread, the accept
\* thread and the receivers.
ConnNext ==
    \/ \E a \in Addrs : ConnectBegin(a)
    \/ Len(socks) < MaxSocks /\ DialOk
    \/ DialFail
    \/ ConnectRegister
    \/ UiCallStop
    \/ StopStep("ui")
    \/ AcceptLoopCheck
    \/ AcceptTimeout
    \/ \E a \in Addrs : Len(socks) < MaxSocks /\ AcceptConn(a)
    \/ AcceptRegister
    \/ \E s \in SockIds : Receiver(s)

ConnSpec == InitStarted /\ [][ConnNext]_vars

\* The same with the broadcasts: the capture ticks of the main loop and
\* send_message from the UI thread.
Next ==
    \/ ConnNext
    \/ \E F \in FailSets : sends < MaxSends /\ MainTick(F)
    \/ \E F \in FailSets : sends < MaxSends /\ UiSend(F)

Spec == InitStarted /\ [][Next]_vars

\* ------------------------------------------- whole-node specification

\* The program counters of the main thread inside start(), before its loop.
StartPcs == {"off", "st_disc", "st_net", "st_rec"}

\* The node from construction on: start(), the main loop with its
\* reconciliation dials, stop() called by the UI thread on the started node
\* and by the main loop's finally clause, and every loop the node runs.
NodeNext ==
    \/ StartFlag
    \/ StartDiscovery
    \/ StartNetwork
    \/ StartRecording
    \/ \E a \in Addrs : ConnectBegin(a)
    \/ Len(socks) < NodeSocks /\ DialOk
    \/ DialFail
    \/ ConnectRegister
    \/ MainExit
    \/ pc["main"] \notin StartPcs /\ UiCallStop
    \/ \E t \in Callers : StopStep(t)
    \/ AcceptLoopCheck
    \/ AcceptTimeout
    \/ \E a \in Addrs : Len(socks) < NodeSocks /\ AcceptConn(a)
    \/ AcceptRegister
    \/ \E s \in SockIds : Receiver(s)
    \/ \E l \in DiscLoops : DiscLoopExit(l)
    \/ AudioCleanup
    \/ PlaybackExit

NodeSpec == Init /\ [][NodeNext]_vars


\* ------------------------------------------- coordinator life cycle

\* The Session Coordinator from construction to the return of stop(), on a
\* network without peers: start(), the main loop's reconciliation (every dial
\* fails) and capture ticks, stop() from the UI thread and from the main
\* loop's finally clause, and the accept and discovery loops' exits.
LifeNext ==
    \/ StartFlag
    \/ StartDiscovery
    \/ StartNetwork
    \/ StartRecording
    \/ \E a \in Addrs : ConnectBegin(a)
    \/ DialFail
    \/ \E F \in FailSets : sends < MaxSends /\ MainTick(F)
    \/ MainExit
    \/ pc["main"] \notin StartPcs /\ UiCallStop
    \/ \E t \in Callers : StopStep(t)
    \/ AcceptLoopCheck
    \/ AcceptTimeout
    \/ \E l \in DiscLoops : DiscLoopExit(l)

LifeSpec == Init /\ [][LifeNext]_vars

\* Scheduling: every thread that can take a step of its own code eventually
\* takes one.  The environment is not obliged to do anything for the node (a
\* peer need not connect, send a frame or be discovered), except that a
\* blocking call returns: a dial ends within its 5 s timeout, accept() within
\* its 1 s timeout, and a receiver's pending read is taken to end too (for a
\* dialled socket it does, by the 5 s timeout; for an accepted one this grants
\* the node more than the code ensures).  AudioCleanup gets no fairness: no
\* code path of start() or stop() calls _cleanup().
NodeFairness ==
    /\ WF_vars(StartFlag \/ StartDiscovery \/ StartNetwork \/ StartRecording)
    /\ WF_vars(DialFail \/ (Len(socks) < NodeSocks /\ DialOk))
    /\ WF_vars(ConnectRegister)
    /\ WF_vars(MainExit)
    /\ \A t \in Callers : WF_vars(StopStep(t))
    /\ WF_vars(AcceptLoopCheck \/ AcceptTimeout \/ AcceptRegister)
    /\ \A s \in 1..NodeSocks :
          WF_vars(s \in SockIds /\ (RecvLoopCheck(s) \/ RecvFail(s) \/ RecvExit(s)))
    /\ \A l \in DiscLoops : WF_vars(DiscLoopExit(l))
    /\ WF_vars(PlaybackExit)

FairNodeSpec == Init /\ [][NodeNext]_vars /\ NodeFairness

\* Every core loop has ended: the session main loop, the accept loop, every
\* receiver, the discovery loops and the playback loop.
LoopsDone ==
    /\ pc["main"] = "done"
    /\ acc \in {"off", "done"}
    /\ \A s \in SockIds : socks[s].rcv \in {"none", "done"}
    /\ \A l \in DiscLoops : dloop[l] \in {"off", "done"}
    /\ pb = "done"

\* C9: after the Session Coordinator's stop() has been called and has
\* returned, every core loop eventually terminates, even when no connected
\* peer sends another byte.
C9_AllLoopsTerminateAfterStop == (pc["main"] = "done") ~> LoopsDone

\* ------------------------------------------------------- wire framing

\* network_manager.py:17-18
PACKET_TYPE_AUDIO == 1
PACKET_TYPE_TEXT == 2

\* Frames a peer writes on one connection in one run.
MaxFrames == 2

\* Calls of send_audio and send_text in one run of the byte-level sender.
MaxWireSends == 2

\* Payloads (bytes): empty, one ASCII byte, the two-byte UTF-8 form of U+00E9,
\* and a lone lead byte, which is not valid UTF-8.
Payloads == {<<>>, <<65>>, <<195, 169>>, <<195>>}

\* Text messages (str), as sequences of code points below U+0800.
Messages == {<<>>, <<65>>, <<233>>, <<65, 233>>}

\* The type byte a peer may put on the wire: AUDIO, TEXT and an unknown type.
WireTypes == {PACKET_TYPE_AUDIO, PACKET_TYPE_TEXT, 3}

\* The peers of the byte-level sender, in the order they connected.
AddrSeq == <<"10.0.0.2", "10.0.0.3">>

\* struct.pack('!B', v) for 0 <= v <= 255: one byte.
StructPackB(v) == <<v>>

\* A length packed least significant byte first ('<I').
StructPackILittle(n) ==
    <<n % 256, (n \div 256) % 256, (n \div 65536) % 256, n \div 16777216>>

\* struct.pack('!I', n) for 0 <= n < 2^32: four bytes, most significant first.
StructPackI(n) ==
    <<n \div 16777216, (n \div 65536) % 256, (n \div 256) % 256, n % 256>>

\* struct.unpack('!B', b)[0] and struct.unpack('!I', b)[0]
StructUnpackB(b) == b[1]
StructUnpackI(b) == b[1] * 16777216 + b[2] * 65536 + b[3] * 256 + b[4]

\* str.encode('utf-8') for code points below U+0800: one byte below U+0080,
\* else a lead byte 110xxxxx and a continuation byte 10xxxxxx.
RECURSIVE Utf8Encode(_)
Utf8Encode(message) ==
    IF message = <<>> THEN <<>>
    ELSE LET c == Head(message)
         IN  (IF c < 128 THEN <<c>> ELSE <<192 + (c \div 64), 128 + (c % 64)>>)
                \o Utf8Encode(Tail(message))

\* Whether bytes.decode('utf-8') succeeds, for byte strings without the lead
\* bytes of three- and four-byte forms (none occurs in Payloads): a byte below
\* 0x80 stands alone, a lead byte 0xC2..0xDF needs one continuation byte
\* 0x80..0xBF, anything else raises UnicodeDecodeError.
RECURSIVE Utf8Valid(_)
Utf8Valid(b) ==
    IF b = <<>> THEN TRUE
    ELSE IF b[1] < 128 THEN Utf8Valid(Tail(b))
    ELSE IF b[1] \in 194..223 /\ Len(b) >= 2 /\ b[2] \in 128..191
         THEN Utf8Valid(Tail(Tail(b)))
    ELSE FALSE

\* bytes.decode('utf-8') of a valid byte string: the code points.
RECURSIVE Utf8Decode(_)
Utf8Decode(b) ==
    IF b = <<>> THEN <<>>
    ELSE IF b[1] < 128 THEN <<b[1]>> \o Utf8Decode(Tail(b))
    ELSE <<(b[1] - 192) * 64 + (b[2] - 128)>> \o Utf8Decode(Tail(Tail(b)))

\* A test for emptiness that never finds its argument empty.
NotDataNever(data) == FALSE

\* network_manager.py:238,250,268  `not audio_data`, `not message`,
\* `not data`: true of the empty bytes object and of the empty string.
NotData(data) == data = <<>>

\* The record of a send call of packet type t with a payload of n bytes that
\* ended as e: "noop" it returned before the table was looked at, "sent" the
\* packet was built and the send loop ran, "raised" building the packet
\* raised.
Request(t, n, e) ==
    [id |-> 1 - sendReq.id, type |-> t, size |-> n, ended |-> e]

\* The largest value struct.pack('!I', ...) packs, 2^32 - 1; a larger one
\* raises struct.error.
UINT32_MAX == Length(65535, 65535)

FitsUint32(size) == size.hi <= UINT32_MAX.hi

\* Payload lengths at the boundaries of the length field: 0, 1, 2^32 - 1 and
\* 2^32.
PayloadSizes == {Length(0, 0), Length(0, 1), UINT32_MAX, Length(65536, 0)}

\* network_manager.py:231-287  send_audio (packet type AUDIO) or send_text
\* (TEXT) with a payload of which only the length, size, is given: nothing for
\* length zero; struct.pack('!I', size) raises for a length that does not
\* fit, before the lock is taken; otherwise the packet is built and the
\* send loop runs with the writes failing on F.  outb keeps the bytes of the
\* calls whose payload is given byte by byte and is left as it is; the
\* packets written are counted in tx.
SendSized(packet_type, size, F) ==
    /\ IF size = Length(0, 0) \/ ~FitsUint32(size)
       THEN UNCHANGED <<sends, socks, connections>>
       ELSE SendPacket(F)
    /\ sendReq' = Request(packet_type, size,
                          IF size = Length(0, 0) THEN "noop"
                          ELSE IF ~FitsUint32(size) THEN "raised"
                          ELSE "sent")
    /\ Touch
    /\ UNCHANGED <<appRunning, recording, audioRunning, discRunning, useTailscale,
                   netRunning, pc, dlAddr, dlSock, dlResult, acc, accSock, dloop,
                   pb, netStopped>>
    /\ UNCHANGED wireVars
    /\ UNCHANGED discVars
    /\ UNCHANGED audioVars
    /\ UNCHANGED pairVars
    /\ UNCHANGED playVars
    /\ UNCHANGED dgramVars
    /\ UNCHANGED vanishVars
    /\ UNCHANGED queueVars
    /\ UNCHANGED sampleVars
    /\ UNCHANGED lockVars

\* network_manager.py:260-287  _send_packet(packet_type, data): nothing for an
\* empty payload; else the packet is built (line 273) and written to every
\* peer of the table whose write does not fail.  The bytes of a sendall that
\* raised are not recorded.
SendPacketFrame(packet_type, data, F) ==
    IF NotData(data)
    THEN UNCHANGED <<sends, socks, connections, outb>>
    ELSE LET packet == StructPackB(packet_type) \o StructPackI(Len(data)) \o data
             res == SendLoop(connections, F,
                             [written |-> {}, disconnected |-> <<>>])
         IN  /\ SendPacket(F)
             /\ outb' = [s \in DOMAIN outb |->
                           IF s \in res.written THEN outb[s] \o packet
                           ELSE outb[s]]

\* network_manager.py:231-241  send_audio(audio_data)
SendAudio(audio_data, F) ==
    /\ IF NotData(audio_data)
       THEN UNCHANGED <<sends, socks, connections, outb>>
       ELSE SendPacketFrame(PACKET_TYPE_AUDIO, audio_data, F)
    /\ sendReq' = Request(PACKET_TYPE_AUDIO, LenOf(audio_data),
                          IF NotData(audio_data) THEN "noop" ELSE "sent")
    /\ Touch
    /\ UNCHANGED <<appRunning, recording, audioRunning, discRunning, useTailscale,
                   netRunning, pc, dlAddr, dlSock, dlResult, acc, accSock, dloop,
                   pb, netStopped, rxStream, rxEof, rxFrames, delivered, uiCalls>>
    /\ UNCHANGED discVars
    /\ UNCHANGED audioVars
    /\ UNCHANGED pairVars
    /\ UNCHANGED playVars
    /\ UNCHANGED dgramVars
    /\ UNCHANGED vanishVars
    /\ UNCHANGED queueVars
    /\ UNCHANGED sampleVars
    /\ UNCHANGED lockVars

\* network_manager.py:243-258  send_text(message)
SendText(message, F) ==
    /\ IF NotData(message)
       THEN UNCHANGED <<sends, socks, connections, outb>>
       ELSE SendPacketFrame(PACKET_TYPE_TEXT, Utf8Encode(message), F)
    /\ sendReq' = Request(PACKET_TYPE_TEXT, LenOf(Utf8Encode(message)),
                          IF NotData(message) THEN "noop" ELSE "sent")
    /\ Touch
    /\ UNCHANGED <<appRunning, recording, audioRunning, discRunning, useTailscale,
                   netRunning, pc, dlAddr, dlSock, dlResult, acc, accSock, dloop,
                   pb, netStopped, rxStream, rxEof, rxFrames, delivered, uiCalls>>
    /\ UNCHANGED discVars
    /\ UNCHANGED audioVars
    /\ UNCHANGED pairVars
    /\ UNCHANGED playVars
    /\ UNCHANGED dgramVars
    /\ UNCHANGED vanishVars
    /\ UNCHANGED queueVars
    /\ UNCHANGED sampleVars
    /\ UNCHANGED lockVars

\* A started node with n peers connected (accepted, receivers running) and
\* nothing written yet.
InitSend ==
    /\ StartedNode
    /\ \E n \in 0..Len(AddrSeq) :
          /\ socks = [i \in 1..n |-> [NewSock(AddrSeq[i]) EXCEPT !.rcv = "top"]]
          /\ connections = [i \in 1..n |-> [ip |-> AddrSeq[i], sock |-> i]]
          /\ outb = [i \in 1..n |-> <<>>]
    /\ RxIdle
    /\ DiscIdle
    /\ AudioIdle
    /\ PairIdle
    /\ SendIdle
    /\ PlayIdle
    /\ DgramIdle
    /\ VanishIdle
    /\ QueueIdle
    /\ LockIdle
    /\ SampleIdle

SendNext ==
    \/ \E audio_data \in Payloads : \E F \in FailSets :
          sends < MaxWireSends /\ SendAudio(audio_data, F)
    \/ \E message \in Messages : \E F \in FailSets :
          sends < MaxWireSends /\ SendText(message, F)

\* The byte-level sender: send_audio and send_text on a table of up to two
\* peers, any subset of which fails on each broadcast.
SendSpec == InitSend /\ [][SendNext]_vars

\* ------------------------------------------------------ frame reception

\* The peer of the byte-level receiver's connection.
RxPeer == "10.0.0.2"

\* network_manager.py:212-229  _recv_exact(conn, n) on a stream that holds
\* `stream` and, if shorter than n, has ended: the n bytes, or None when recv
\* returns b'' before n bytes have come.  For n = 0 the loop body never runs
\* and the result is b''.
RecvExact(stream, n) ==
    IF Len(stream) >= n
    THEN [none |-> FALSE, data |-> SubSeq(stream, 1, n),
          rest |-> SubSeq(stream, n + 1, Len(stream))]
    ELSE [none |-> TRUE, data |-> <<>>, rest |-> <<>>]

\* `not data` in Python: true for None and for the empty bytes object.
Falsy(r) == r.none \/ r.data = <<>>

\* network_manager.py:186-197  the callbacks invoked for one frame: the audio
\* callback with the payload, the text callback with the decoded payload (none
\* if decoding raises), none for an unknown type.
Dispatch(packet_type, data, peer_ip) ==
    IF packet_type = PACKET_TYPE_AUDIO
    THEN <<[cb |-> "audio", arg |-> data, peer |-> peer_ip]>>
    ELSE IF packet_type = PACKET_TYPE_TEXT
         THEN IF Utf8Valid(data)
              THEN <<[cb |-> "text", arg |-> Utf8Decode(data), peer |-> peer_ip]>>
              ELSE <<>>
         ELSE <<>>

\* network_manager.py:166-197  one iteration of the receive loop on `stream`:
\* the three reads, each followed by `if not data: break`, then the dispatch.
ReceiveBody(stream, peer_ip) ==
    LET type_data == RecvExact(stream, 1)
    IN  IF Falsy(type_data)
        THEN [brk |-> TRUE, rest |-> type_data.rest, calls |-> <<>>]
        ELSE
    LET packet_type == StructUnpackB(type_data.data)
        size_data == RecvExact(type_data.rest, 4)
    IN  IF Falsy(size_data)
        THEN [brk |-> TRUE, rest |-> size_data.rest, calls |-> <<>>]
        ELSE
    LET size == StructUnpackI(size_data.data)
        data == RecvExact(size_data.rest, size)
    IN  IF Falsy(data)
        THEN [brk |-> TRUE, rest |-> data.rest, calls |-> <<>>]
        ELSE [brk |-> FALSE, rest |-> data.rest,
              calls |-> Dispatch(packet_type, data.data, peer_ip)]

\* The stream holds a whole frame: header and as many payload bytes as the
\* header announces.  Otherwise a read of the iteration waits for more bytes.
FrameComplete(stream) ==
    /\ Len(stream) >= 5
    /\ Len(stream) >= 5 + StructUnpackI(SubSeq(stream, 2, 5))

\* The peer writes one frame: a type byte, the big-endian length, the payload.
PeerWrite(t, p) ==
    /\ Len(rxFrames) < MaxFrames
    /\ ~rxEof
    /\ rxStream' = rxStream \o StructPackB(t) \o StructPackI(Len(p)) \o p
    /\ rxFrames' = Append(rxFrames, [type |-> t, data |-> p])
    /\ Touch
    /\ UNCHANGED <<appRunning, recording, audioRunning, discRunning, useTailscale,
                   netRunning, connections, socks, pc, dlAddr, dlSock, dlResult,
                   acc, accSock, dloop, pb, sends, netStopped, outb, rxEof,
                   delivered, uiCalls>>
    /\ UNCHANGED discVars
    /\ UNCHANGED audioVars
    /\ UNCHANGED pairVars
    /\ UNCHANGED sendVars
    /\ UNCHANGED playVars
    /\ UNCHANGED dgramVars
    /\ UNCHANGED vanishVars
    /\ UNCHANGED queueVars
    /\ UNCHANGED sampleVars
    /\ UNCHANGED lockVars

\* The peer closes its end of the connection.
PeerClose ==
    /\ ~rxEof
    /\ rxEof' = TRUE
    /\ Touch
    /\ UNCHANGED <<appRunning, recording, audioRunning, discRunning, useTailscale,
                   netRunning, connections, socks, pc, dlAddr, dlSock, dlResult,
                   acc, accSock, dloop, pb, sends, netStopped, outb, rxStream,
                   rxFrames, delivered, uiCalls>>
    /\ UNCHANGED discVars
    /\ UNCHANGED audioVars
    /\ UNCHANGED pairVars
    /\ UNCHANGED sendVars
    /\ UNCHANGED playVars
    /\ UNCHANGED dgramVars
    /\ UNCHANGED vanishVars
    /\ UNCHANGED queueVars
    /\ UNCHANGED sampleVars
    /\ UNCHANGED lockVars

\* A name resolution that returns the address itself, whatever the table holds.
ResolveNameRaw(pt, peer_ip) == peer_ip

\* app.py:65-66  peers.get(peer_ip, {}).get('username', peer_ip) on the
\* snapshot get_peers() returns.
ResolveName(pt, peer_ip) ==
    IF PeerHas(pt, peer_ip) THEN PeerGet(pt, peer_ip).username ELSE peer_ip

\* app.py:57-73  _on_text_received for each text callback of calls: the UI's
\* callback (set by the UI before start) is invoked with the resolved name
\* and the message.
OnTextReceived(calls, pt) ==
    LET texts == SelectSeq(calls, LAMBDA c : c.cb = "text")
    IN  [i \in 1..Len(texts) |->
            [username |-> ResolveName(pt, texts[i].peer),
             message |-> texts[i].arg]]

\* network_manager.py:166-201  one iteration of the receive loop of socket s
\* on the bytes of the stream; it runs once a whole frame has come or the
\* stream has ended.  A break leads to the receiver's exit.
RecvFrameBytes(s) ==
    LET r == ReceiveBody(rxStream, socks[s].peer)
    IN  /\ socks[s].rcv = "read"
        /\ socks[s].open
        /\ FrameComplete(rxStream) \/ rxEof
        /\ rxStream' = r.rest
        /\ delivered' = delivered \o r.calls
        /\ uiCalls' = uiCalls \o OnTextReceived(r.calls, peers)
        /\ socks' = SetRcv(socks, s, IF r.brk THEN "exitIO" ELSE "top")
        /\ Touch
        /\ UNCHANGED <<appRunning, recording, audioRunning, discRunning,
                       useTailscale, netRunning, connections, pc, dlAddr, dlSock,
                       dlResult, acc, accSock, dloop, pb, sends, netStopped,
                       outb, rxEof, rxFrames>>
        /\ UNCHANGED discVars
        /\ UNCHANGED audioVars
        /\ UNCHANGED pairVars
        /\ UNCHANGED sendVars
        /\ UNCHANGED playVars
        /\ UNCHANGED dgramVars
        /\ UNCHANGED vanishVars
        /\ UNCHANGED queueVars
        /\ UNCHANGED sampleVars
        /\ UNCHANGED lockVars

\* A started node with one accepted connection, its receiver at the top of
\* its loop, nothing received yet.
InitRecv ==
    /\ StartedNode
    /\ socks = <<[NewSock(RxPeer) EXCEPT !.rcv = "top"]>>
    /\ connections = <<[ip |-> RxPeer, sock |-> 1]>>
    /\ outb = <<<<>>>>
    /\ RxIdle
    /\ DiscIdle
    /\ AudioIdle
    /\ PairIdle
    /\ SendIdle
    /\ PlayIdle
    /\ DgramIdle
    /\ VanishIdle
    /\ QueueIdle
    /\ LockIdle
    /\ SampleIdle

RecvNext ==
    \/ \E t \in WireTypes : \E p \in Payloads : PeerWrite(t, p)
    \/ PeerClose
    \/ RecvLoopCheck(1)
    \/ RecvFrameBytes(1)
    \/ RecvExit(1)

\* The byte-level receiver: one connection whose peer writes frames and may
\* close; the receiver reads them and dispatches.
RecvSpec == InitRecv /\ [][RecvNext]_vars

\* The frames obey the wire framing and carry what a sender puts in them:
\* type AUDIO or TEXT, a TEXT payload being UTF-8.
WellFormed(frames) ==
    \A i \in 1..Len(frames) :
        /\ frames[i].type \in {PACKET_TYPE_AUDIO, PACKET_TYPE_TEXT}
        /\ frames[i].type = PACKET_TYPE_TEXT => Utf8Valid(frames[i].data)

\* One callback invocation per frame, in wire order, with the frame's payload
\* and the source address.
ExpectedCalls(frames, peer_ip) ==
    [i \in 1..Len(frames) |->
        [cb |-> IF frames[i].type = PACKET_TYPE_AUDIO THEN "audio" ELSE "text",
         arg |-> IF frames[i].type = PACKET_TYPE_AUDIO THEN frames[i].data
                 ELSE Utf8Decode(frames[i].data),
         peer |-> peer_ip]]

\* ---------------------------------------- Connection Manager properties

\* A live connection: an open socket whose receiver is in its loop.
Live(s) == socks[s].open /\ socks[s].rcv \in {"top", "read"}

Registered(s) == s \in DictValues(connections)

DictCount(d, k) == Cardinality({i \in 1..Len(d) : d[i].ip = k})

\* C1: in every reachable state there is at most one live connection (open
\* socket with its receiver) per peer address, also when an inbound accept and
\* an outbound connect_to_peer for the same address overlap.
C1_AtMostOneConnectionPerAddress ==
    \A s1, s2 \in SockIds :
        (Live(s1) /\ Live(s2) /\ socks[s1].peer = socks[s2].peer) => s1 = s2

\* C2: when a receiver that left its loop on an I/O failure of its own socket
\* deregisters and closes, every other connection registered at that moment
\* (for the same or another address) stays registered and open.
C2_IoFailureClosesOnlyThatConnection ==
    [][\A s \in SockIds :
          (socks[s].rcv = "exitIO" /\ RecvExit(s)) =>
              \A i \in 1..Len(connections) :
                  connections[i].sock # s =>
                      /\ \E j \in 1..Len(connections') :
                            connections'[j] = connections[i]
                      /\ socks'[connections[i].sock].open
      ]_vars

\* C5: in one broadcast, every peer registered at its start whose own write
\* does not fail is written the complete frame and is still registered when
\* the broadcast ends, whichever other peers' writes fail.
C5_FailingPeerNeverBlocksAnother ==
    [][\A F \in FailSets :
          SendPacket(F) =>
              \A i \in 1..Len(connections) :
                  connections[i].sock \notin F =>
                      /\ socks'[connections[i].sock].tx
                            = socks[connections[i].sock].tx + 1
                      /\ \E j \in 1..Len(connections') :
                            connections'[j] = connections[i]
      ]_vars

\* A broadcast has run in which the write to one registered peer failed (that
\* peer was dropped from the table, its receiver still in its loop) and the
\* write to another registered peer succeeded.
C5_Witness ==
    /\ sends = 1
    /\ \E s1, s2 \in SockIds :
          /\ socks[s1].peer # socks[s2].peer
          /\ socks[s1].tx = 1 /\ Registered(s1)
          /\ socks[s2].tx = 0 /\ ~Registered(s2) /\ Live(s2)

\* C6: when a broadcast ends, every peer whose write failed in it is
\* deregistered and its socket is closed.
C6_FailedPeersDeregisteredAndClosed ==
    [][\A F \in FailSets :
          SendPacket(F) =>
              \A s \in F : ~Registered(s)' /\ ~socks'[s].open
      ]_vars

\* C7: connect_to_peer(a, p) called while a is registered returns success
\* without dialling and leaves the table and the sockets unchanged, the table
\* holding exactly one entry for a; and a call that dials and registers leaves
\* exactly one entry for a.
C7_ConnectIdempotent ==
    [][/\ \A a \in Addrs :
             (ConnectBegin(a) /\ DictHas(connections, a)) =>
                 /\ connections' = connections
                 /\ socks' = socks
                 /\ pc'["main"] = "top"
                 /\ dlResult' = "already"
                 /\ DictCount(connections', a) = 1
       /\ ConnectRegister => DictCount(connections', dlAddr) = 1
      ]_vars

\* A connect_to_peer call for a registered address has returned "already":
\* the dial that registered the socket came first, the second call found it.
C7_Witness ==
    /\ dlResult = "already"
    /\ pc["main"] = "top"
    /\ \E s \in SockIds : Registered(s) /\ Live(s)

\* C8: once NetworkManager.stop() has returned the table is empty and stays
\* empty, and every socket the manager registered or accepted is closed, also
\* when an accept or a dial was in flight when stop() was called.
C8_StopLeavesNothingOpen ==
    netStopped =>
        /\ connections = <<>>
        /\ \A s \in SockIds :
              (socks[s].rcv # "none" \/ s = accSock) => ~socks[s].open

\* C10: stop() is idempotent at every level.  Once a stop() call has run from
\* its first statement to its return with no other thread stepping, and
\* nothing but stop() calls has run since, every step of a further stop()
\* (coordinator flag, capture, Connection Manager flag and table, Discovery
\* Engine flag) leaves the program's state as it is.
C10_SecondStopChangesNothing ==
    [][(quiet = "done" /\ \E t \in Callers : StopStep(t))
          => UNCHANGED progState]_vars

\* A second stop() has run through NetworkManager.stop() after a first one
\* that closed a registered connection.
C10_Witness ==
    /\ quiet = "done"
    /\ pc["ui"] = "stop5"
    /\ \E s \in SockIds : socks[s].rcv # "none" /\ ~socks[s].open

\* C4: for every send of a frame with type t and non-empty payload p, what is
\* written to each registered peer whose write succeeds is exactly: one byte
\* equal to t, four bytes whose big-endian value is the length of p, then p,
\* and nothing else.
C4_BytesOnWireAreTypeLengthPayload ==
    [][\A t \in {PACKET_TYPE_AUDIO, PACKET_TYPE_TEXT} :
       \A p \in (Payloads \cup {Utf8Encode(m) : m \in Messages}) \ {<<>>} :
       \A F \in FailSets :
          SendPacketFrame(t, p, F) =>
             \A i \in 1..Len(connections) :
                LET s == connections[i].sock
                    n == Len(outb[s])
                    b == SubSeq(outb'[s], n + 1, Len(outb'[s]))
                IN  s \notin F =>
                       /\ SubSeq(outb'[s], 1, n) = outb[s]
                       /\ Len(b) = 5 + Len(p)
                       /\ \A k \in 1..5 : b[k] \in 0..255
                       /\ b[1] = t
                       /\ b[2] * 16777216 + b[3] * 65536 + b[4] * 256 + b[5] = Len(p)
                       /\ SubSeq(b, 6, Len(b)) = p
      ]_vars

\* A frame with a two-byte payload has been written to a peer that is still
\* registered, while the other peer's write failed.
C4_Witness ==
    /\ sends = 1
    /\ \E s \in SockIds : Registered(s) /\ Len(outb[s]) = 7
    /\ \E s \in SockIds : ~Registered(s) /\ outb[s] = <<>>

\* C3: for every stream of frames that obeys the wire framing (AUDIO or TEXT,
\* any length the framing permits, zero included), the callback invocations
\* made so far are the invocations due for the first frames of the stream, in
\* wire order, and once the receiver has consumed every byte the peer wrote
\* there has been exactly one invocation per frame, with the frame's payload
\* and the source address.
C3_OneCallbackPerFrameInWireOrder ==
    WellFormed(rxFrames) =>
        LET expected == ExpectedCalls(rxFrames, RxPeer)
        IN  /\ Len(delivered) <= Len(expected)
            /\ delivered = SubSeq(expected, 1, Len(delivered))
            /\ rxStream = <<>> => delivered = expected

\* The same for streams whose frames all have a payload of at least one byte.
C3_HoldsForNonEmptyPayloads ==
    (\A i \in 1..Len(rxFrames) : rxFrames[i].data # <<>>)
        => C3_OneCallbackPerFrameInWireOrder

\* C11: start() starts the Discovery Engine, then the Connection Manager, then
\* capture, and no reconciliation or send tick happens before all three run;
\* stop() clears the coordinator's running flag, then stops capture, then the
\* Connection Manager, then the Discovery Engine.  Each flag is set or cleared
\* only in a state where the earlier steps have been done and the later ones
\* have not.
C11_StartAndStopOrder ==
    [][/\ (~appRunning /\ appRunning')
             => (~discRunning /\ ~netRunning /\ ~recording)
       /\ (~discRunning /\ discRunning')
             => (appRunning /\ ~netRunning /\ ~recording)
       /\ (~netRunning /\ netRunning')
             => (appRunning /\ discRunning /\ ~recording)
       /\ (~recording /\ recording')
             => (appRunning /\ discRunning /\ netRunning)
       /\ ((\E a \in Addrs : ConnectBegin(a)) \/ (\E F \in FailSets : MainTick(F)))
             => (discRunning /\ netRunning /\ recording)
       /\ (recording /\ ~recording') => ~appRunning
       /\ (netRunning /\ ~netRunning') => (~appRunning /\ ~recording)
       /\ (~netStopped /\ netStopped') => (~appRunning /\ ~recording /\ discRunning)
       /\ (discRunning /\ ~discRunning')
             => (~appRunning /\ ~recording /\ ~netRunning /\ netStopped)
      ]_vars

\* The node was started, made a send tick, and stop() has run to its end.
C11_Witness ==
    /\ pc["main"] = "done"
    /\ sends >= 1
    /\ acc # "off"
    /\ ~appRunning /\ ~recording /\ ~netRunning /\ ~discRunning

\* C12: in every reachable state the node's own address is a key of neither
\* its Peer Table nor its connection table.
C12_OwnAddressInNoTable ==
    /\ ~PeerHas(peers, LocalIp)
    /\ ~DictHas(connections, LocalIp)

\* The Peer Table half alone.
C12_OwnAddressNotInPeerTable == ~PeerHas(peers, LocalIp)

\* The aging loop removes the record of address a in this step.
AgingRemoves(a) ==
    /\ dloop["cleanup"] = "del"
    /\ clRemove # <<>>
    /\ Head(clRemove) = a
    /\ PeerHas(peers, a)
    /\ ~PeerHas(peers', a)

\* C19: under Strategy A, whenever the aging loop removes a peer from the Peer
\* Table, the last announcement recorded from that peer is at least
\* PEER_TIMEOUT seconds old at the removal, whatever the listen loop did while
\* the aging pass was in progress.
C19_RemovedPeerWasSilent ==
    [][\A a \in Addrs :
          (~useTailscale /\ AgingRemoves(a)) => now - heard[a] >= PEER_TIMEOUT
      ]_vars

\* C20: while the Discovery Engine's running flag is set, none of its loops
\* has ended on an error raised in its body.
C20_NoLoopDiesWhileRunning ==
    discRunning => \A l \in DiscLoops : dloop[l] # "dead"

\* ------------------------------------------------------- Audio Pipeline

\* The variables of the Session Coordinator, the Connection Manager and the
\* loops' program counters; the Audio Pipeline's own steps leave them alone.
nodeVars == <<appRunning, recording, audioRunning, discRunning, useTailscale,
              netRunning, connections, socks, pc, dlAddr, dlSock, dlResult,
              acc, accSock, dloop, pb, sends, netStopped>>

\* audio_handler.py:108  the playback queue holds at most this many frames
PLAYBACK_QUEUE_SIZE == 50

Min(a, b) == IF a <= b THEN a ELSE b
Max(a, b) == IF a >= b THEN a ELSE b

\* A growth step of one frame.
GrowTargetByOne(t) == Min(t + 1, max_size)

\* A growth step without the upper limit.
GrowTargetUnbounded(t) == t + 2

\* audio_handler.py:63  min(self.target_size + 2, self.max_size)
GrowTarget(t) == Min(t + 2, max_size)

\* audio_handler.py:74  max(self.target_size - 1, self.min_size)
ShrinkTarget(t) == Max(t - 1, min_size)

\* The longest run of observations of one kind that is counted.
RunCap == 4

\* audio_handler.py:58,69,80  the branch adjust takes for queue_size when the
\* target is t: "zero" the queue is empty, "over" it holds more than 1.5 t,
\* "normal" otherwise.
ObsKind(queue_size, t) ==
    IF queue_size = 0 THEN "zero"
    ELSE IF 2 * queue_size > 3 * t THEN "over"
    ELSE "normal"

\* The run of observations after one of kind k.
Observed(k) ==
    [kind |-> k,
     n |-> IF obsRun.kind = k THEN Min(obsRun.n + 1, RunCap) ELSE 1]

\* audio_handler.py:47-84  AdaptiveJitterBuffer.adjust(queue_size), called by
\* the playback loop (lines 319 and 353) with the queue's qsize().
\* queue_size > target_size * 1.5 is 2 * queue_size > 3 * target_size.
AdjustBody(queue_size) ==
    /\ IF queue_size = 0
       THEN /\ IF underrun_count + 1 > 3
               THEN /\ target_size' = GrowTarget(target_size)
                    /\ underrun_count' = 0
               ELSE /\ underrun_count' = underrun_count + 1
                    /\ UNCHANGED target_size
            /\ UNCHANGED overrun_count
       ELSE IF 2 * queue_size > 3 * target_size
       THEN /\ IF overrun_count + 1 > 3
               THEN /\ target_size' = ShrinkTarget(target_size)
                    /\ overrun_count' = 0
               ELSE /\ overrun_count' = overrun_count + 1
                    /\ UNCHANGED target_size
            /\ UNCHANGED underrun_count
       ELSE /\ underrun_count' = 0
            /\ overrun_count' = 0
            /\ UNCHANGED target_size
    /\ obsRun' = Observed(ObsKind(queue_size, target_size))

\* A call of adjust with any queue size, whatever the playback queue holds.
Adjust(queue_size) ==
    /\ pb = "loop"
    /\ audioRunning
    /\ AdjustBody(queue_size)
    /\ Touch
    /\ UNCHANGED nodeVars
    /\ UNCHANGED wireVars
    /\ UNCHANGED discVars
    /\ UNCHANGED pairVars
    /\ UNCHANGED sendVars
    /\ UNCHANGED dgramVars
    /\ UNCHANGED vanishVars
    /\ UNCHANGED queueVars
    /\ UNCHANGED sampleVars
    /\ UNCHANGED lockVars
    /\ UNCHANGED <<playback_queue, playback_started, last_age, gap, gapPlaying,
                   plcRun>>
    /\ UNCHANGED <<agc_current_gain, vadLog>>

JitterNext == \E queue_size \in 0..PLAYBACK_QUEUE_SIZE : Adjust(queue_size)

\* The jitter buffer of a constructed node under any sequence of adjust calls
\* with any size the playback queue can have.
JitterSpec == Init /\ [][JitterNext]_vars

\* A clip that returns its argument.
ClipNone(x, lo, hi) == x

\* numpy.clip(x, lo, hi)
Clip(x, lo, hi) == Min(Max(x, lo), hi)

\* The RMS levels of a decoded frame (rms / 32768.0), in thousandths: silence,
\* the threshold 0.01 and the level just above it, quiet, the target level,
\* loud, and full scale.
Levels == {0, 10, 11, 20, 75, 150, 300, 600, 1000}

\* audio_handler.py:406-420  apply_agc on a frame of RMS level current_level:
\* above 0.01 the gain moves a tenth of the way to target_level / current_level
\* and is clipped; the gain is kept in thousandths, rounded down.
AgcBody(current_level) ==
    IF current_level > 10
    THEN LET target_gain == (AGC_TARGET_LEVEL * 1000) \div current_level
         IN  agc_current_gain' =
                 Clip((agc_current_gain * 9 + target_gain) \div 10,
                      AGC_MIN_GAIN, AGC_MAX_GAIN)
    ELSE UNCHANGED agc_current_gain

\* A call of apply_agc on a frame of any level.
ApplyAgc(current_level) ==
    /\ pb = "loop"
    /\ audioRunning
    /\ AgcBody(current_level)
    /\ Touch
    /\ UNCHANGED nodeVars
    /\ UNCHANGED wireVars
    /\ UNCHANGED discVars
    /\ UNCHANGED pairVars
    /\ UNCHANGED sendVars
    /\ UNCHANGED playVars
    /\ UNCHANGED dgramVars
    /\ UNCHANGED vanishVars
    /\ UNCHANGED queueVars
    /\ UNCHANGED sampleVars
    /\ UNCHANGED lockVars
    /\ UNCHANGED <<target_size, underrun_count, overrun_count, vadLog>>

AgcNext == \E current_level \in Levels : ApplyAgc(current_level)

\* The gain control of a constructed node under any sequence of decoded
\* frames.
AgcSpec == Init /\ [][AgcNext]_vars

\* The capture ticks a run may have.
MaxTicks == 2

\* How a call of get_audio_chunk can go: capture is off, the read of the
\* input stream raises, the detector says silence or speech or raises, the
\* encoder raises.
CaptureOutcomes ==
    {"not_recording", "read_error", "silence", "speech", "vad_error",
     "encode_error"}

\* A capture path that encodes every frame it reads, silent or not.
GetAudioChunkNoVad(outcome, opus_data) ==
    IF outcome \in {"silence", "speech", "vad_error"} THEN opus_data ELSE <<>>

\* audio_handler.py:216-263  get_audio_chunk(): None (here <<>>, as falsy as
\* None for the caller's test) when capture is off, on a read or encoder
\* error and on silence; the encoder's output for speech and when the
\* detector raised.
GetAudioChunk(outcome, opus_data) ==
    IF outcome \in {"speech", "vad_error"} THEN opus_data ELSE <<>>

\* app.py:118-121  the capture tick of the main loop at the byte level:
\* audio_chunk = get_audio_chunk(); if audio_chunk: send_audio(audio_chunk).
\* opus_data is what the encoder returns for the frame read, never empty.
CaptureTick(outcome, opus_data, F) ==
    LET audio_chunk == GetAudioChunk(outcome, opus_data)
    IN  /\ pc["main"] = "top"
        /\ appRunning
        /\ (outcome = "not_recording") <=> ~recording
        /\ opus_data # <<>>
        /\ vadLog' = Append(vadLog, outcome)
        /\ IF audio_chunk # <<>>
           THEN SendPacketFrame(PACKET_TYPE_AUDIO, audio_chunk, F)
           ELSE UNCHANGED <<sends, socks, connections, outb>>
        /\ sendReq' = IF audio_chunk # <<>>
                      THEN Request(PACKET_TYPE_AUDIO, LenOf(audio_chunk), "sent")
                      ELSE sendReq
        /\ Touch
        /\ UNCHANGED <<appRunning, recording, audioRunning, discRunning,
                       useTailscale, netRunning, pc, dlAddr, dlSock, dlResult,
                       acc, accSock, dloop, pb, netStopped, rxStream, rxEof,
                       rxFrames, delivered, uiCalls>>
        /\ UNCHANGED discVars
        /\ UNCHANGED pairVars
        /\ UNCHANGED playVars
        /\ UNCHANGED dgramVars
        /\ UNCHANGED vanishVars
        /\ UNCHANGED queueVars
        /\ UNCHANGED sampleVars
        /\ UNCHANGED lockVars
        /\ UNCHANGED <<target_size, underrun_count, overrun_count,
                       agc_current_gain>>

\* audio_handler.py:211-214  stop_recording(), as a host program may call it
\* during a session.
PauseRecording ==
    /\ recording
    /\ recording' = FALSE
    /\ Touch
    /\ UNCHANGED <<appRunning, audioRunning, discRunning, useTailscale,
                   netRunning, connections, socks, pc, dlAddr, dlSock, dlResult,
                   acc, accSock, dloop, pb, sends, netStopped>>
    /\ UNCHANGED wireVars
    /\ UNCHANGED discVars
    /\ UNCHANGED audioVars
    /\ UNCHANGED pairVars
    /\ UNCHANGED sendVars
    /\ UNCHANGED playVars
    /\ UNCHANGED dgramVars
    /\ UNCHANGED vanishVars
    /\ UNCHANGED queueVars
    /\ UNCHANGED sampleVars
    /\ UNCHANGED lockVars

CaptureNext ==
    \/ \E outcome \in CaptureOutcomes : \E opus_data \in Payloads :
       \E F \in FailSets :
          Len(vadLog) < MaxTicks /\ CaptureTick(outcome, opus_data, F)
    \/ \E message \in Messages : \E F \in FailSets :
          sends < MaxSends /\ SendText(message, F)
    \/ PauseRecording

\* The capture path of a started node with up to two peers connected: capture
\* ticks of any outcome, while the UI sends text messages.
CaptureSpec == InitSend /\ [][CaptureNext]_vars

\* The number of frames of type t in a byte stream of whole frames.
RECURSIVE FramesOfType(_, _)
FramesOfType(stream, t) ==
    IF Len(stream) < 5 THEN 0
    ELSE LET size == StructUnpackI(SubSeq(stream, 2, 5))
         IN  (IF StructUnpackB(stream) = t THEN 1 ELSE 0)
                + FramesOfType(SubSeq(stream, 6 + size, Len(stream)), t)

\* C16: a capture tick whose frame the detector classifies as silence returns
\* no frame and broadcasts nothing; as long as every tick so far was silent, no
\* socket has carried an AUDIO frame.
C16_SilenceIsNeverSent ==
    /\ [][(/\ Len(vadLog') = Len(vadLog) + 1
           /\ vadLog'[Len(vadLog')] = "silence")
             => (outb' = outb /\ sends' = sends /\ socks' = socks)]_vars
    /\ []((\A i \in 1..Len(vadLog) : vadLog[i] = "silence")
             => \A s \in DOMAIN outb : FramesOfType(outb[s], PACKET_TYPE_AUDIO) = 0)

\* A run of silent ticks on a node with two peers connected, during which a
\* text message went out.
C16_Witness ==
    /\ Len(vadLog) = MaxTicks
    /\ \A i \in 1..Len(vadLog) : vadLog[i] = "silence"
    /\ Len(connections) = 2
    /\ \E s \in DOMAIN outb : FramesOfType(outb[s], PACKET_TYPE_TEXT) > 0

\* C17: the jitter buffer's target length is within [min_size, max_size] in
\* every reachable state, after any sequence of adjust calls.
C17_TargetWithinLimits == min_size <= target_size /\ target_size <= max_size

\* The target has grown to its upper limit and a further run of underruns is
\* under way.
C17_Witness == target_size = max_size /\ underrun_count = 3

\* C18: the AGC gain is within [0.5, 4.0] in every reachable state.
C18_GainWithinLimits ==
    AGC_MIN_GAIN <= agc_current_gain /\ agc_current_gain <= AGC_MAX_GAIN

\* Frames just above the threshold have driven the gain to its upper limit.
C18_Witness == agc_current_gain = AGC_MAX_GAIN

\* A call of connect_to_peer is waiting for its dial to succeed or time out.
DialPending == pc["main"] = "dialing"

\* C14: while a dial is pending in a running, recording session, the main
\* loop's capture tick can still be taken.
C14_PendingDialLeavesCaptureRunning ==
    (appRunning /\ recording /\ DialPending)
        => ENABLED (\E F \in FailSets : MainTick(F))

\* ------------------------------------------------- text, end to end

\* The messages a UI may pass to send_message: those of Messages, a blank one
\* and one with a leading blank.
UiMessages == Messages \cup {<<32>>, <<32, 65>>}

\* The code points below U+0800 that str.strip() removes.
Whitespace == {9, 10, 11, 12, 13, 28, 29, 30, 31, 32, 133, 160}

\* app.py:82  `message and message.strip()` is falsy.
IsBlank(message) == \A i \in 1..Len(message) : message[i] \in Whitespace

\* network_manager.py:273  the packet _send_packet builds.
Packet(packet_type, data) ==
    StructPackB(packet_type) \o StructPackI(Len(data)) \o data

\* app.py:75-84, network_manager.py:243-283  the peer, a node running the same
\* program and connected to this node, calls send_message(message): nothing
\* for a blank message, else send_text encodes it and _send_packet writes the
\* TEXT packet to the connection, where this node's receiver will read it.
PeerSendMessage(message) ==
    /\ Len(rxFrames) < MaxFrames
    /\ ~rxEof
    /\ IF IsBlank(message)
       THEN UNCHANGED <<rxStream, rxFrames>>
       ELSE /\ rxStream' = rxStream \o Packet(PACKET_TYPE_TEXT, Utf8Encode(message))
            /\ rxFrames' = Append(rxFrames, [type |-> PACKET_TYPE_TEXT,
                                             data |-> Utf8Encode(message),
                                             message |-> message])
    /\ Touch
    /\ UNCHANGED nodeVars
    /\ UNCHANGED <<outb, rxEof, delivered, uiCalls>>
    /\ UNCHANGED discVars
    /\ UNCHANGED audioVars
    /\ UNCHANGED pairVars
    /\ UNCHANGED sendVars
    /\ UNCHANGED playVars
    /\ UNCHANGED dgramVars
    /\ UNCHANGED vanishVars
    /\ UNCHANGED queueVars
    /\ UNCHANGED sampleVars
    /\ UNCHANGED lockVars

TextNext ==
    \/ \E message \in UiMessages : PeerSendMessage(message)
    \/ PeerClose
    \/ \E peer_ip \in AllAddrs : ListenDatagram(peer_ip)
    \/ RecvLoopCheck(1)
    \/ RecvFrameBytes(1)
    \/ RecvExit(1)

\* A started node with one connection whose peer sends text messages, while
\* the listen loop fills the Peer Table.
TextSpec == InitRecv /\ [][TextNext]_vars

\* C15: each non-blank message the connected peer passes to send_message
\* reaches the UI's text callback exactly once and unchanged, in order; when
\* the peer is in the Peer Table at that moment, the callback gets the peer's
\* display name, resolved from the connection's source address.
C15_TextReachesUiOnceWithName ==
    /\ [](/\ Len(uiCalls) <= Len(rxFrames)
          /\ rxStream = <<>> => Len(uiCalls) = Len(rxFrames)
          /\ \A i \in 1..Len(uiCalls) : uiCalls[i].message = rxFrames[i].message)
    /\ [][uiCalls' # uiCalls
            => /\ Len(uiCalls') = Len(uiCalls) + 1
               /\ SubSeq(uiCalls', 1, Len(uiCalls)) = uiCalls
               /\ PeerHas(peers, RxPeer)
                    => uiCalls'[Len(uiCalls')].username = UserOf(RxPeer)]_vars

\* Two messages have reached the UI, the second, with its leading blank and
\* under the peer's name, after the peer's announcement was heard.
C15_Witness ==
    /\ Len(uiCalls) = 2
    /\ uiCalls[1] = [username |-> RxPeer, message |-> <<65, 233>>]
    /\ uiCalls[2] = [username |-> "alice", message |-> <<32, 65>>]

\* ------------------------------------------------- two nodes, reconciling

\* Two running nodes A and B, each with the other in its Peer Table, on a
\* network that delivers every dial.  Each node runs the code of
\* _connect_to_new_peers, connect_to_peer, _accept_connections and
\* _receive_from_peer.  A connection's socket at the dialler's end is "new"
\* (connect returned), then "open" (registered, its receiver running), then
\* "closed"; at the acceptor's end it is "backlog" (handshake done, accept not
\* yet returned), "accepted", then "open" (registered, its receiver running)
\* or "closed".

\* The state of node n's socket of connection l.
EndOf(lk, l, n) == IF lk[l].dialer = n THEN lk[l].dEnd ELSE lk[l].aEnd

SetEnd(lk, l, n, v) ==
    [lk EXCEPT ![l] = IF @.dialer = n THEN [@ EXCEPT !.dEnd = v]
                                      ELSE [@ EXCEPT !.aEnd = v]]

\* A connection closed at both ends no longer exists.
Reclaim(lk) ==
    [l \in Links |->
        IF lk[l].dEnd = "closed" /\ lk[l].aEnd = "closed" THEN FreeLink
        ELSE lk[l]]

IsFree(l) == link[l].dialer = "none"

\* app.py:130-138, network_manager.py:123-131  the reconciliation tick of
\* node n: the other node is in the Peer Table and not in the snapshot of the
\* connection table, connect_to_peer finds it absent under the lock and
\* dials; the network completes the handshake.
PReconcile(n) ==
    /\ pDial[n] = 0
    /\ pConn[n] = 0
    /\ \E l \in Links :
          /\ IsFree(l)
          /\ \A k \in Links : IsFree(k) => l <= k
          /\ link' = [link EXCEPT ![l] = [dialer |-> n, dEnd |-> "new",
                                          aEnd |-> "backlog"]]
          /\ pDial' = [pDial EXCEPT ![n] = l]
    /\ Touch
    /\ UNCHANGED nodeVars
    /\ UNCHANGED wireVars
    /\ UNCHANGED discVars
    /\ UNCHANGED audioVars
    /\ UNCHANGED sendVars
    /\ UNCHANGED playVars
    /\ UNCHANGED dgramVars
    /\ UNCHANGED vanishVars
    /\ UNCHANGED queueVars
    /\ UNCHANGED sampleVars
    /\ UNCHANGED lockVars
    /\ UNCHANGED <<pConn, pAcc>>

\* network_manager.py:133-148  connect_to_peer of node n registers the dialled
\* socket, whatever the table holds, and starts its receiver.
PRegister(n) ==
    /\ pDial[n] # 0
    /\ pConn' = [pConn EXCEPT ![n] = pDial[n]]
    /\ link' = SetEnd(link, pDial[n], n, "open")
    /\ pDial' = [pDial EXCEPT ![n] = 0]
    /\ Touch
    /\ UNCHANGED nodeVars
    /\ UNCHANGED wireVars
    /\ UNCHANGED discVars
    /\ UNCHANGED audioVars
    /\ UNCHANGED sendVars
    /\ UNCHANGED playVars
    /\ UNCHANGED dgramVars
    /\ UNCHANGED vanishVars
    /\ UNCHANGED queueVars
    /\ UNCHANGED sampleVars
    /\ UNCHANGED lockVars
    /\ UNCHANGED pAcc

\* network_manager.py:89-90  accept() of node n returns a connection the other
\* node dialled.
PAccept(n) ==
    /\ pAcc[n] = 0
    /\ \E l \in Links :
          /\ link[l].dialer = Other(n)
          /\ link[l].aEnd = "backlog"
          /\ link' = SetEnd(link, l, n, "accepted")
          /\ pAcc' = [pAcc EXCEPT ![n] = l]
    /\ Touch
    /\ UNCHANGED nodeVars
    /\ UNCHANGED wireVars
    /\ UNCHANGED discVars
    /\ UNCHANGED audioVars
    /\ UNCHANGED sendVars
    /\ UNCHANGED playVars
    /\ UNCHANGED dgramVars
    /\ UNCHANGED vanishVars
    /\ UNCHANGED queueVars
    /\ UNCHANGED sampleVars
    /\ UNCHANGED lockVars
    /\ UNCHANGED <<pConn, pDial>>

\* network_manager.py:92-105  under the lock: the accepted connection is
\* registered and its receiver started if the address is not in the table,
\* else it is closed.
PAcceptRegister(n) ==
    /\ pAcc[n] # 0
    /\ IF pConn[n] = 0
       THEN /\ pConn' = [pConn EXCEPT ![n] = pAcc[n]]
            /\ link' = SetEnd(link, pAcc[n], n, "open")
       ELSE /\ link' = Reclaim(SetEnd(link, pAcc[n], n, "closed"))
            /\ UNCHANGED pConn
    /\ pAcc' = [pAcc EXCEPT ![n] = 0]
    /\ Touch
    /\ UNCHANGED nodeVars
    /\ UNCHANGED wireVars
    /\ UNCHANGED discVars
    /\ UNCHANGED audioVars
    /\ UNCHANGED sendVars
    /\ UNCHANGED playVars
    /\ UNCHANGED dgramVars
    /\ UNCHANGED vanishVars
    /\ UNCHANGED queueVars
    /\ UNCHANGED sampleVars
    /\ UNCHANGED lockVars
    /\ UNCHANGED pDial

\* network_manager.py:199-208  the end of the receiver of node n's socket of
\* connection l: the table's entry for the address is deleted, whichever
\* socket it holds, and the receiver's socket is closed.
PReceiverExit(n, l) ==
    /\ pConn' = [pConn EXCEPT ![n] = 0]
    /\ link' = Reclaim(SetEnd(link, l, n, "closed"))
    /\ Touch
    /\ UNCHANGED nodeVars
    /\ UNCHANGED wireVars
    /\ UNCHANGED discVars
    /\ UNCHANGED audioVars
    /\ UNCHANGED sendVars
    /\ UNCHANGED playVars
    /\ UNCHANGED dgramVars
    /\ UNCHANGED vanishVars
    /\ UNCHANGED queueVars
    /\ UNCHANGED sampleVars
    /\ UNCHANGED lockVars
    /\ UNCHANGED <<pDial, pAcc>>

\* network_manager.py:166-169  the receiver reads the end of the stream: the
\* other node has closed its socket of the connection.
PRecvEof(n, l) ==
    /\ ~IsFree(l)
    /\ EndOf(link, l, n) = "open"
    /\ EndOf(link, l, Other(n)) = "closed"
    /\ PReceiverExit(n, l)

\* network_manager.py:130,195-197  a dialled socket keeps the timeout of 5 s
\* set before connect: its receiver's recv raises when the other node sends
\* nothing on this connection for 5 s.
PRecvTimeout(n, l) ==
    /\ link[l].dialer = n
    /\ link[l].dEnd = "open"
    /\ PReceiverExit(n, l)

\* network_manager.py:277-285  a broadcast of node n fails on the registered
\* socket, which the other node has closed: the entry is deleted.
PSendFail(n) ==
    /\ pConn[n] # 0
    /\ EndOf(link, pConn[n], Other(n)) = "closed"
    /\ pConn' = [pConn EXCEPT ![n] = 0]
    /\ Touch
    /\ UNCHANGED nodeVars
    /\ UNCHANGED wireVars
    /\ UNCHANGED discVars
    /\ UNCHANGED audioVars
    /\ UNCHANGED sendVars
    /\ UNCHANGED playVars
    /\ UNCHANGED dgramVars
    /\ UNCHANGED vanishVars
    /\ UNCHANGED queueVars
    /\ UNCHANGED sampleVars
    /\ UNCHANGED lockVars
    /\ UNCHANGED <<link, pDial, pAcc>>

PairNext ==
    \/ \E n \in Nodes : PReconcile(n)
    \/ \E n \in Nodes : PRegister(n)
    \/ \E n \in Nodes : PAccept(n)
    \/ \E n \in Nodes : PAcceptRegister(n)
    \/ \E n \in Nodes : \E l \in Links : PRecvEof(n, l)
    \/ \E n \in Nodes : \E l \in Links : PRecvTimeout(n, l)
    \/ \E n \in Nodes : PSendFail(n)

PairSpec == InitStarted /\ [][PairNext]_vars

\* Every thread of either node keeps running: a reconciliation tick that can
\* dial does, a dialled socket is registered, a waiting connection accepted
\* and handled, an end of stream read.  Timeouts and failed broadcasts happen
\* or not.
PairFairness ==
    \A n \in Nodes :
        /\ WF_vars(PReconcile(n))
        /\ WF_vars(PRegister(n))
        /\ WF_vars(PAccept(n))
        /\ WF_vars(PAcceptRegister(n))
        /\ \A l \in Links : WF_vars(PRecvEof(n, l))

FairPairSpec == PairSpec /\ PairFairness

\* Node n holds a registered connection to the other node, open at its own
\* end and not closed at the other.
Connected(n) ==
    /\ pConn[n] # 0
    /\ EndOf(link, pConn[n], n) = "open"
    /\ EndOf(link, pConn[n], Other(n)) # "closed"

BothConnected == \A n \in Nodes : Connected(n)

\* Every connection the model provides for is in use.
LinksUsedUp == \A l \in Links : ~IsFree(l)

C21_EmptyPayloadIsNoOp ==
    [][(sendReq'.id # sendReq.id /\ sendReq'.size = Length(0, 0))
          => /\ outb' = outb
             /\ socks' = socks
             /\ connections' = connections
             /\ sendReq'.ended = "noop"]_vars

\* An empty payload was sent last, as AUDIO or as TEXT, to a table of two
\* peers, one of which has been written to before.
C21_Witness ==
    /\ sendReq.id = 0
    /\ sendReq.size = Length(0, 0)
    /\ sendReq.type = PACKET_TYPE_TEXT
    /\ Len(connections) = 2
    /\ \E s \in DOMAIN outb : outb[s] # <<>>

SizeNext ==
    \E packet_type \in {PACKET_TYPE_AUDIO, PACKET_TYPE_TEXT} :
        \E size \in PayloadSizes : \E F \in FailSets :
            sends < MaxWireSends /\ SendSized(packet_type, size, F)

\* The sender on payloads at the boundaries of the length field, on a table
\* of up to two peers.
SizeSpec == InitSend /\ [][SizeNext]_vars

\* C27: a send call with a payload of 2^32-1 bytes is rejected: no packet is
\* written to any peer.
C27_LargestPayloadRejected ==
    [][(sendReq'.id # sendReq.id /\ sendReq'.size = UINT32_MAX)
          => \A s \in SockIds : socks'[s].tx = socks[s].tx]_vars

\* ------------------------------------------- read failures (receiver)

\* The peer writes the first k bytes of a frame and its connection ends: the
\* stream ends inside the frame.
PeerWriteTruncated(t, p, k) ==
    /\ Len(rxFrames) < MaxFrames
    /\ ~rxEof
    /\ k \in 1..(4 + Len(p))
    /\ rxStream' = rxStream
                      \o SubSeq(StructPackB(t) \o StructPackI(Len(p)) \o p, 1, k)
    /\ rxEof' = TRUE
    /\ Touch
    /\ UNCHANGED <<appRunning, recording, audioRunning, discRunning, useTailscale,
                   netRunning, connections, socks, pc, dlAddr, dlSock, dlResult,
                   acc, accSock, dloop, pb, sends, netStopped, outb, rxFrames,
                   delivered, uiCalls>>
    /\ UNCHANGED discVars
    /\ UNCHANGED audioVars
    /\ UNCHANGED pairVars
    /\ UNCHANGED sendVars
    /\ UNCHANGED playVars
    /\ UNCHANGED dgramVars
    /\ UNCHANGED vanishVars
    /\ UNCHANGED queueVars
    /\ UNCHANGED sampleVars
    /\ UNCHANGED lockVars

ErrNext ==
    \/ \E t \in WireTypes : \E p \in Payloads : PeerWrite(t, p)
    \/ \E t \in WireTypes : \E p \in Payloads : \E k \in 1..6 :
          PeerWriteTruncated(t, p, k)
    \/ RecvLoopCheck(1)
    \/ RecvFrameBytes(1)
    \/ RecvFail(1)
    \/ RecvExit(1)

\* The byte-level receiver on a connection that fails: the peer writes frames
\* and its connection ends inside a frame, or a read raises.
ErrSpec == InitRecv /\ [][ErrNext]_vars

\* The receiver of the connection leaves its read.
RecvStep == socks[1].rcv = "read" /\ socks'[1].rcv # "read"

\* The payload of the whole frame at the front of the stream.
HeadPayload(stream) ==
    SubSeq(stream, 6, 5 + StructUnpackI(SubSeq(stream, 2, 5)))

\* The stream has ended inside a frame.
ShortRead == rxEof /\ rxStream # <<>> /\ ~FrameComplete(rxStream)

\* The frame at the front of the stream is a TEXT frame whose payload is not
\* valid UTF-8.
DecodeFailure ==
    /\ FrameComplete(rxStream)
    /\ StructUnpackB(rxStream) = PACKET_TYPE_TEXT
    /\ HeadPayload(rxStream) # <<>>
    /\ ~Utf8Valid(HeadPayload(rxStream))

\* The receiver, having left its loop on a failure, deregisters the
\* connection and closes it.
ExitDeregisters ==
    (socks[1].rcv = "exitIO" /\ socks'[1].rcv # "exitIO")
        => /\ socks'[1].rcv = "done"
           /\ ~socks'[1].open
           /\ ~DictHas(connections', RxPeer)

\* C22 as stated: a read error, a short read or a decode failure terminates
\* the connection's receiver, which deregisters the connection.
C22_ReadFailureEndsReceiver ==
    [][/\ ((RecvStep /\ (ShortRead \/ DecodeFailure)) \/ RecvFail(1))
            => socks'[1].rcv = "exitIO"
       /\ ExitDeregisters]_vars

\* C22: a read error or a short read terminates the connection's receiver,
\* which deregisters the connection and closes it; a TEXT payload that is not
\* valid UTF-8 is dropped without a callback, the receiver goes on with the
\* next frame and the connection stays registered.
C22_ReadFailureEndsReceiverBadTextIsDropped ==
    [][/\ ((RecvStep /\ ShortRead) \/ RecvFail(1))
            => socks'[1].rcv = "exitIO"
       /\ (RecvStep /\ DecodeFailure /\ ~RecvFail(1))
            => /\ socks'[1].rcv = "top"
               /\ delivered' = delivered
               /\ connections' = connections
               /\ Len(rxStream') = Len(rxStream) - 5 - Len(HeadPayload(rxStream))
       /\ ExitDeregisters]_vars

\* The peer wrote a TEXT frame that is not valid UTF-8 and then part of a
\* frame before its connection ended: the first was dropped, no callback was
\* invoked, and the receiver has ended, deregistered and closed.
C22_Witness ==
    /\ rxFrames = <<[type |-> PACKET_TYPE_TEXT, data |-> <<195>>]>>
    /\ rxEof
    /\ rxStream = <<>>
    /\ delivered = <<>>
    /\ socks[1].rcv = "done"
    /\ ~socks[1].open
    /\ connections = <<>>

\* ----------------------------------------- unknown frame types (receiver)

\* The whole frame at the front of the stream has a type that is neither
\* AUDIO nor TEXT.
UnknownHead ==
    /\ FrameComplete(rxStream)
    /\ StructUnpackB(rxStream) \notin {PACKET_TYPE_AUDIO, PACKET_TYPE_TEXT}

\* The stream after the frame at its front.
AfterHead(stream) ==
    SubSeq(stream, 6 + Len(HeadPayload(stream)), Len(stream))

\* C23: the receiver's iteration on a frame of unknown type invokes no
\* callback, consumes the frame's header and payload and nothing more, leaves
\* the connection registered and returns to the top of the loop, where the
\* next frame is read from its first byte.
C23_UnknownTypeIsSkipped ==
    [][(RecvStep /\ UnknownHead)
          => /\ delivered' = delivered
             /\ rxStream' = AfterHead(rxStream)
             /\ connections' = connections
             /\ socks'[1].rcv = "top"]_vars

\* The same for frames of unknown type that carry at least one payload byte.
C23_HoldsForNonEmptyPayloads ==
    [][(RecvStep /\ UnknownHead /\ HeadPayload(rxStream) # <<>>)
          => /\ delivered' = delivered
             /\ rxStream' = AfterHead(rxStream)
             /\ connections' = connections
             /\ socks'[1].rcv = "top"]_vars

\* ------------------------------------------------ jitter adaptation

\* C28: the third observation in a row of an empty queue raises the target
\* to min(target + 2, max_size) and resets the underrun counter.
C28_ThirdZeroRaisesTarget ==
    [][(obsRun' # obsRun /\ obsRun'.kind = "zero" /\ obsRun'.n = 3)
          => /\ target_size' = GrowTarget(target_size)
             /\ underrun_count' = 0]_vars

\* C30: an observation that is not an underrun restarts the underrun count,
\* one that is not an overrun restarts the overrun count, and the target
\* moves only on an observation that ends a run of at least three of its
\* kind: up on empty queues, down on overruns.
C30_OnlyConsecutiveObservationsCount ==
    [][/\ obsRun'.kind \in {"over", "normal"} => underrun_count' = 0
       /\ obsRun'.kind \in {"zero", "normal"} => overrun_count' = 0
       /\ target_size' > target_size
            => obsRun'.kind = "zero" /\ obsRun'.n >= 3
       /\ target_size' < target_size
            => obsRun'.kind = "over" /\ obsRun'.n >= 3]_vars

\* ------------------------------------------------------ playback loop

\* audio_handler.py:311  packet_timeout = 0.1, in ticks of 10 ms
packet_timeout == 10

\* Ages of the last packet and lengths of an outage are counted up to these
\* many ticks, concealment frames in a row up to PlcCap.
AgeCap == 11
GapCap == 20
PlcCap == 5

\* The peers stop sending while the playback queue holds this many frames.
MaxBacklog == 14

\* The RMS levels, in thousandths, of the frames played: silence and the
\* AGC's target level.
PlayLevels == {0, AGC_TARGET_LEVEL}

\* Ticks output_stream.write takes: none while the device's buffer has room,
\* the length of a frame once it is full.
WriteTicks == {0, 2}

\* d ticks pass.
Elapse(d) ==
    /\ last_age' = Min(last_age + d, AgeCap)
    /\ gap' = Min(gap + d, GapCap)

\* A frame whose sender and content the loop's model does not tell apart.
AnyFrame == 0

\* Queue.qsize().
QSize(q) == Len(q)

\* Queue.full(): put_nowait raises Full.
QFull(q) == Len(q) >= PLAYBACK_QUEUE_SIZE

DropNewest(q, n) == SubSeq(q, 1, Len(q) - n)

\* The queue after n calls of get_nowait.
DropOldest(q, n) == SubSeq(q, n + 1, Len(q))

\* audio_handler.py:276-294  the queue after play_audio: the frame is added;
\* if the queue is full the five oldest frames are dropped first.
PutFrame(q, opus_data) ==
    IF ~QFull(q) THEN Append(q, opus_data)
    ELSE Append(DropOldest(q, 5), opus_data)

\* audio_handler.py:265-294  play_audio(opus_data, peer_ip) with a non-empty
\* frame, called by a receiver.
PlayAudio(opus_data) ==
    /\ audioRunning
    /\ QSize(playback_queue) < MaxBacklog
    /\ playback_queue' = PutFrame(playback_queue, opus_data)
    /\ gap' = 0
    /\ gapPlaying' = (playback_started /\ QSize(playback_queue) = 0)
    /\ plcRun' = 0
    /\ Touch
    /\ UNCHANGED <<playback_started, last_age, obsRun>>
    /\ UNCHANGED nodeVars
    /\ UNCHANGED wireVars
    /\ UNCHANGED discVars
    /\ UNCHANGED audioVars
    /\ UNCHANGED pairVars
    /\ UNCHANGED sendVars
    /\ UNCHANGED dgramVars
    /\ UNCHANGED vanishVars
    /\ UNCHANGED queueVars
    /\ UNCHANGED sampleVars
    /\ UNCHANGED lockVars

BufferReadyAlways(queue_size, target) == TRUE

\* audio_handler.py:321  the test `queue_size < target_size` fails: the
\* buffer is full enough to start playing.
BufferReady(queue_size, target) == queue_size >= target

\* audio_handler.py:317-329  an iteration of the loop that is not playing:
\* adjust is called with the queue's size; below the target it returns the
\* loop sleeps 20 ms, otherwise playback_started is set and the iteration goes
\* on to the dequeue.
PlayFill ==
    /\ pb = "loop"
    /\ audioRunning
    /\ ~playback_started
    /\ AdjustBody(QSize(playback_queue))
    /\ IF ~BufferReady(QSize(playback_queue), target_size')
       THEN /\ Elapse(2)
            /\ UNCHANGED playback_started
       ELSE /\ playback_started' = TRUE
            /\ UNCHANGED <<last_age, gap>>
    /\ Touch
    /\ UNCHANGED <<playback_queue, gapPlaying, plcRun>>
    /\ UNCHANGED <<agc_current_gain, vadLog>>
    /\ UNCHANGED nodeVars
    /\ UNCHANGED wireVars
    /\ UNCHANGED discVars
    /\ UNCHANGED pairVars
    /\ UNCHANGED sendVars
    /\ UNCHANGED dgramVars
    /\ UNCHANGED vanishVars
    /\ UNCHANGED queueVars
    /\ UNCHANGED sampleVars
    /\ UNCHANGED lockVars

\* audio_handler.py:368  output_stream.write(pcm_data) of an output frame of
\* the given kind, made from `mixed` queued frames of which `frame` is the
\* oldest.
Write(kind, frame, mixed) ==
    [id |-> 1 - written.id, kind |-> kind, frame |-> frame, mixed |-> mixed]

\* audio_handler.py:336-340,360-381  the dequeue of a playing loop returns a
\* frame: last_packet_time is set, the frame is decoded, passed through the
\* AGC and written, which takes w ticks.  If the decoder raises on the frame
\* (decoded false) the handler at 383-385 sleeps 100 ms.
PlayGet(current_level, w, decoded) ==
    /\ pb = "loop"
    /\ audioRunning
    /\ playback_started
    /\ QSize(playback_queue) > 0
    /\ playback_queue' = DropOldest(playback_queue, 1)
    /\ IF decoded
       THEN /\ last_age' = Min(w, AgeCap)
            /\ gap' = Min(gap + w, GapCap)
            /\ AgcBody(current_level)
            /\ plcRun' = 0
            /\ written' = Write("frame", Head(playback_queue), 1)
       ELSE /\ last_age' = Min(10, AgeCap)
            /\ gap' = Min(gap + 10, GapCap)
            /\ UNCHANGED <<agc_current_gain, plcRun, written>>
    /\ Touch
    /\ UNCHANGED <<playback_started, gapPlaying, obsRun>>
    /\ UNCHANGED <<target_size, underrun_count, overrun_count, vadLog>>
    /\ UNCHANGED nodeVars
    /\ UNCHANGED wireVars
    /\ UNCHANGED discVars
    /\ UNCHANGED pairVars
    /\ UNCHANGED sendVars
    /\ UNCHANGED dgramVars
    /\ UNCHANGED vanishVars
    /\ UNCHANGED sampleVars
    /\ UNCHANGED lockVars
    /\ UNCHANGED <<prod, arrived>>

PacketLostNever(age) == FALSE

\* audio_handler.py:345  time.time() - last_packet_time > packet_timeout.
PacketLost(age) == age > packet_timeout

\* audio_handler.py:336,342-348  the dequeue of a playing loop times out
\* after 20 ms on an empty queue.  If the last packet is older than
\* packet_timeout a concealment frame is decoded, passed through the AGC and
\* written; last_packet_time is left alone.  Otherwise the loop goes on to
\* look at the queue again.
PlayTimeout(current_level, w) ==
    LET age == Min(last_age + 2, AgeCap)
    IN  /\ pb = "loop"
        /\ audioRunning
        /\ playback_started
        /\ QSize(playback_queue) = 0
        /\ IF PacketLost(age)
           THEN /\ AgcBody(current_level)
                /\ plcRun' = Min(plcRun + 1, PlcCap)
                /\ Elapse(2 + w)
                /\ written' = Write("plc", 0, 0)
                /\ UNCHANGED pb
           ELSE /\ pb' = "empty"
                /\ Elapse(2)
                /\ UNCHANGED <<agc_current_gain, plcRun, written>>
        /\ Touch
        /\ UNCHANGED <<playback_queue, playback_started, gapPlaying, obsRun>>
        /\ UNCHANGED <<target_size, underrun_count, overrun_count, vadLog>>
        /\ UNCHANGED <<appRunning, recording, audioRunning, discRunning,
                       useTailscale, netRunning, connections, socks, pc,
                       dlAddr, dlSock, dlResult, acc, accSock, dloop, sends,
                       netStopped>>
        /\ UNCHANGED wireVars
        /\ UNCHANGED discVars
        /\ UNCHANGED pairVars
        /\ UNCHANGED sendVars
        /\ UNCHANGED dgramVars
        /\ UNCHANGED vanishVars
        /\ UNCHANGED sampleVars
        /\ UNCHANGED lockVars
        /\ UNCHANGED <<prod, arrived>>

\* audio_handler.py:350-358  after a timeout without loss: adjust is called
\* with the size the queue has now, playback_started is cleared if that is
\* zero, and the loop sleeps 10 ms.
PlayRecheck ==
    /\ pb = "empty"
    /\ AdjustBody(QSize(playback_queue))
    /\ playback_started' = (QSize(playback_queue) # 0)
    /\ Elapse(1)
    /\ pb' = "loop"
    /\ Touch
    /\ UNCHANGED <<playback_queue, gapPlaying, plcRun>>
    /\ UNCHANGED <<agc_current_gain, vadLog>>
    /\ UNCHANGED <<appRunning, recording, audioRunning, discRunning,
                   useTailscale, netRunning, connections, socks, pc,
                   dlAddr, dlSock, dlResult, acc, accSock, dloop, sends,
                   netStopped>>
    /\ UNCHANGED wireVars
    /\ UNCHANGED discVars
    /\ UNCHANGED pairVars
    /\ UNCHANGED sendVars
    /\ UNCHANGED dgramVars
    /\ UNCHANGED vanishVars
    /\ UNCHANGED queueVars
    /\ UNCHANGED sampleVars
    /\ UNCHANGED lockVars

PlayNext ==
    \/ PlayAudio(AnyFrame)
    \/ PlayFill
    \/ \E current_level \in PlayLevels : \E w \in WriteTicks :
          \E decoded \in BOOLEAN : PlayGet(current_level, w, decoded)
    \/ \E current_level \in PlayLevels : \E w \in WriteTicks :
          PlayTimeout(current_level, w)
    \/ PlayRecheck

\* The playback loop of a constructed node with the receivers' play_audio
\* calls.
PlaySpec == Init /\ [][PlayNext]_vars

\* C24: when no frame has come for 200 ms (20 ticks) since one that found
\* the loop playing, at least five concealment frames have been written in a
\* row; writing a concealment frame does not bring last_packet_time forward.
C24_OutageIsConcealed ==
    [][/\ (gapPlaying' /\ gap' >= 20) => plcRun' >= 5
       /\ plcRun' > plcRun => last_age' >= last_age]_vars

\* C29: the third overrun observation in a row lowers the target to
\* max(target - 1, min_size) and resets the overrun counter, and every
\* dequeue of a playing loop from a queue above 1.5 x target is such an
\* observation.
C29_OverrunOnEveryDequeueLowersTarget ==
    [][/\ (obsRun' # obsRun /\ obsRun'.kind = "over" /\ obsRun'.n = 3)
            => /\ target_size' = ShrinkTarget(target_size)
               /\ overrun_count' = 0
       /\ (/\ playback_started
           /\ QSize(playback_queue') = QSize(playback_queue) - 1
           /\ 2 * QSize(playback_queue) > 3 * target_size)
            => overrun_count' # overrun_count]_vars

\* ------------------------------------------------- discovery failures

\* The ways a datagram can be malformed: bytes that are not UTF-8, text that
\* is not JSON, JSON that is not an object, and an object that lacks one of
\* the three fields.
DatagramFaults ==
    {"not_utf8", "not_json", "not_object", "no_ip", "no_username",
     "no_tcp_port"}

\* peer_discovery.py:230-243  the statement of _listen_loop that raises on a
\* datagram with the fault, which names peer_ip unless the fault is in or
\* before the 'ip' field: data.decode() or json.loads (230), peer_info['ip']
\* (231), the log line for a new peer, which reads peer_info['username']
\* (237), or the dict display that reads 'username' and 'tcp_port' (239-243).
\* "own" if the datagram names the node itself and is skipped at 233-234.
RaisedAt(fault, peer_ip, pt) ==
    IF fault \in {"not_utf8", "not_json"} THEN "loads"
    ELSE IF fault \in {"not_object", "no_ip"} THEN "ip"
    ELSE IF OwnAnnouncement(peer_ip) THEN "own"
    ELSE IF fault = "no_username" /\ ~PeerHas(pt, peer_ip) THEN "log"
    ELSE "store"

\* peer_discovery.py:227-248  the listen loop receives a malformed datagram:
\* the exception is raised before self.peers[peer_ip] is assigned, the
\* handler at 247-248 logs it, and the loop goes on.
ListenMalformed(fault, peer_ip) ==
    /\ dloop["listen"] = "run"
    /\ discRunning
    /\ dgram' = [id |-> 1 - dgram.id, raised |-> RaisedAt(fault, peer_ip, peers)]
    /\ Touch
    /\ UNCHANGED <<appRunning, recording, audioRunning, discRunning, useTailscale,
                   netRunning, connections, socks, pc, dlAddr, dlSock, dlResult,
                   acc, accSock, dloop, pb, sends, netStopped>>
    /\ UNCHANGED wireVars
    /\ UNCHANGED discVars
    /\ UNCHANGED audioVars
    /\ UNCHANGED pairVars
    /\ UNCHANGED sendVars
    /\ UNCHANGED playVars
    /\ UNCHANGED vanishVars
    /\ UNCHANGED queueVars
    /\ UNCHANGED sampleVars
    /\ UNCHANGED lockVars

\* The ways the overlay agent can fail: a non-zero exit status, no answer
\* within 3 s, an answer that is not JSON.
AgentErrors == {"exit_status", "timeout", "bad_json"}

\* peer_discovery.py:91-93,130-132,163-165  the loop test passes and the
\* overlay agent fails: _get_tailscale_peers logs the error and returns {}.
TsFetchError(error) ==
    /\ dloop["tailscale"] = "run"
    /\ discRunning
    /\ tsIns' = [res |-> {}, todo |-> {}, at |-> now, failed |-> TRUE]
    /\ dloop' = [dloop EXCEPT !["tailscale"] = "ins"]
    /\ Touch
    /\ UNCHANGED <<appRunning, recording, audioRunning, discRunning, useTailscale,
                   netRunning, connections, socks, pc, dlAddr, dlSock, dlResult,
                   acc, accSock, pb, sends, netStopped>>
    /\ UNCHANGED wireVars
    /\ UNCHANGED audioVars
    /\ UNCHANGED pairVars
    /\ UNCHANGED sendVars
    /\ UNCHANGED playVars
    /\ UNCHANGED dgramVars
    /\ UNCHANGED vanishVars
    /\ UNCHANGED queueVars
    /\ UNCHANGED sampleVars
    /\ UNCHANGED lockVars
    /\ UNCHANGED <<peers, now, clTime, clIter, clRemove, tsDel, heard>>

FaultNext ==
    \/ DiscNext
    \/ \E fault \in DatagramFaults : \E peer_ip \in AllAddrs :
          ListenMalformed(fault, peer_ip)
    \/ \E error \in AgentErrors : TsFetchError(error)

\* The Discovery Engine on a network that also delivers malformed datagrams
\* and with an overlay agent that can fail.
FaultSpec == Init /\ [][FaultNext]_vars

\* C26: the handling of a malformed datagram leaves the Peer Table as it is
\* and the listen loop running; a pass of the overlay loop whose query failed
\* deletes no peer, and the overlay loop does not end.
C26_FailuresLeavePeerTableUnchanged ==
    [][/\ dgram' # dgram => (peers' = peers /\ dloop'["listen"] = "run")
       /\ (/\ tsIns.failed
           /\ dloop["tailscale"] \in {"ins", "del"}
           /\ (dloop' # dloop \/ tsDel' # tsDel \/ tsIns' # tsIns))
            => peers' = peers
       /\ dloop'["tailscale"] # "dead"]_vars

\* ------------------------------------------------------ a peer vanishes

\* The peer whose process dies.
VPeer == "10.0.0.2"

\* The process at address a is running.
Alive(a) == a = VPeer => ~vanished

\* The connections to a, registered or not, are closed and none is being
\* set up.
NoConnection(a) ==
    /\ ~DictHas(connections, a)
    /\ \A s \in SockIds : socks[s].peer = a => ~socks[s].open
    /\ dlSock = NoSock

\* The process of VPeer dies while the node holds a registered, open
\* connection to it, early enough for the aging of its record to fall within
\* the time covered.  Its announcements stop, its end of every connection is
\* closed, and dialling it fails from now on.
PeerDies ==
    /\ ~vanished
    /\ DictHas(connections, VPeer)
    /\ socks[DictGet(connections, VPeer)].open
    /\ now + PEER_TIMEOUT < MaxTime
    /\ vanished' = TRUE
    /\ Touch
    /\ UNCHANGED nodeVars
    /\ UNCHANGED wireVars
    /\ UNCHANGED discVars
    /\ UNCHANGED audioVars
    /\ UNCHANGED pairVars
    /\ UNCHANGED sendVars
    /\ UNCHANGED playVars
    /\ UNCHANGED dgramVars
    /\ UNCHANGED queueVars
    /\ UNCHANGED sampleVars
    /\ UNCHANGED lockVars

\* app.py:130-138  _connect_to_new_peers calls connect_to_peer for a peer of
\* the Peer Table that get_connected_peers() does not list.
Reconcile(a) ==
    /\ PeerHas(peers, a)
    /\ ~DictHas(connections, a)
    /\ ConnectBegin(a)

VanishNext ==
    \/ Tick
    \/ \E peer_ip \in Addrs : Alive(peer_ip) /\ ListenDatagram(peer_ip)
    \/ CleanupBegin
    \/ CleanupScan
    \/ CleanupDelete
    \/ \E a \in Addrs : Reconcile(a)
    \/ Len(socks) < NodeSocks /\ Alive(dlAddr) /\ DialOk
    \/ DialFail
    \/ ConnectRegister
    \/ \E s \in SockIds : RecvLoopCheck(s)
    \/ \E s \in SockIds : Alive(socks[s].peer) /\ RecvFrame(s)
    \/ \E s \in SockIds : RecvFail(s)
    \/ \E s \in SockIds : RecvExit(s)
    \/ PeerDies

\* A started node (Strategy A) among peers that announce themselves, one of
\* which dies.
VanishSpec == InitStarted /\ [][VanishNext]_vars

\* Time passes; the aging loop, the receivers and a connect_to_peer call in
\* progress keep running; a read on a connection whose peer has died returns.
VanishFairness ==
    /\ WF_vars(Tick)
    /\ WF_vars(CleanupBegin \/ CleanupScan \/ CleanupDelete)
    /\ WF_vars(DialFail \/ (Len(socks) < NodeSocks /\ Alive(dlAddr) /\ DialOk))
    /\ WF_vars(ConnectRegister)
    /\ \A s \in 1..NodeSocks :
          /\ WF_vars(s \in SockIds /\ (RecvLoopCheck(s) \/ RecvExit(s)))
          /\ WF_vars(s \in SockIds /\ ~Alive(socks[s].peer) /\ RecvFail(s))

FairVanishSpec == VanishSpec /\ VanishFairness

\* C25: once the process of a connected peer has died, from some time on the
\* peer is absent from the Peer Table and the node holds no connection to it,
\* registered or open.
C25_VanishedPeerIsForgotten ==
    [](vanished => <>[](~PeerHas(peers, VPeer) /\ NoConnection(VPeer)))

\* ------------------------------------------------- the FILLING state

\* The queue q2 is q1 with frames added at its end: nothing was taken out.
Extends(q2, q1) ==
    /\ Len(q2) >= Len(q1)
    /\ SubSeq(q2, 1, Len(q1)) = q1

\* C31: the playback loop starts in FILLING; while it is in FILLING no frame
\* leaves the queue and nothing is written to the output device; it moves
\* to PLAYING only at a check where the queue holds at least target_size
\* frames.
C31_FillingHoldsBackPlayback ==
    /\ ~playback_started
    /\ [][~playback_started =>
            /\ Extends(playback_queue', playback_queue)
            /\ written' = written
            /\ playback_started' =>
                  /\ playback_queue' = playback_queue
                  /\ QSize(playback_queue) >= target_size'
                  /\ QSize(playback_queue) >= target_size]_vars

\* The loop has moved to PLAYING and written a frame, and is back in FILLING
\* with frames queued below the target.
C31_Witness ==
    /\ ~playback_started
    /\ written.kind = "frame"
    /\ QSize(playback_queue) > 0
    /\ QSize(playback_queue) < target_size

\* ------------------------------------------------- empty dequeues

\* This step is a dequeue attempt of the playing loop that times out on the
\* empty queue.
EmptyDequeue ==
    /\ pb = "loop"
    /\ playback_started
    /\ QSize(playback_queue) = 0
    /\ (pb' = "empty" \/ written' # written)

\* The age of the last dequeued frame when the attempt has timed out.
AgeAtTimeout == Min(last_age + 2, AgeCap)

\* This step is the loop's second look at the queue after such an attempt.
Recheck == pb = "empty" /\ pb' = "loop"

\* C32: a dequeue attempt of the playing loop that obtains no frame less than
\* 100 ms after the last frame writes nothing and puts the loop in FILLING;
\* one that obtains no frame more than 100 ms after it writes a concealment
\* frame and leaves the loop in PLAYING.
C32_EmptyDequeueRebuffersOrConceals ==
    [][/\ (EmptyDequeue /\ AgeAtTimeout < packet_timeout) =>
             /\ written' = written
             /\ pb' = "empty"
       /\ Recheck => (written' = written /\ ~playback_started')
       /\ (EmptyDequeue /\ AgeAtTimeout > packet_timeout) =>
             /\ written'.kind = "plc"
             /\ written'.id # written.id
             /\ playback_started'
             /\ pb' = "loop"]_vars

\* C32 as the loop does it: after an attempt that obtains no frame at most
\* 100 ms after the last frame the loop writes nothing and looks at the queue
\* again; it goes to FILLING if the queue is still empty then and stays in
\* PLAYING if a frame has come in the meantime.  More than 100 ms after the
\* last frame it writes a concealment frame and stays in PLAYING.
C32_EmptyDequeueRebuffersIfStillEmpty ==
    [][/\ (EmptyDequeue /\ AgeAtTimeout <= packet_timeout) =>
             /\ written' = written
             /\ playback_started'
             /\ pb' = "empty"
       /\ Recheck =>
             /\ written' = written
             /\ playback_queue' = playback_queue
             /\ playback_started' = (QSize(playback_queue) # 0)
       /\ (EmptyDequeue /\ AgeAtTimeout > packet_timeout) =>
             /\ written'.kind = "plc"
             /\ written'.id # written.id
             /\ playback_started'
             /\ pb' = "loop"]_vars

\* An attempt has timed out 20 ms after a frame was written, a frame came in
\* before the loop looked at the queue again, and the loop is still in
\* PLAYING after its 10 ms sleep.
C32_Witness ==
    /\ pb = "loop"
    /\ playback_started
    /\ written.kind = "frame"
    /\ QSize(playback_queue) = 1
    /\ last_age = 3

\* ------------------------------------------------- the playback queue, frame by frame

\* The receivers hand over this many frames more than the queue holds.
MaxExtra == 3

\* prod with producer p at position at, holding frame f after gets calls of
\* get_nowait; a producer that is not in a call holds nothing.
ProdAt(p, at, f, gets) ==
    [prod EXCEPT ![p] = [at |-> at, frame |-> f, gets |-> gets]]

ProdDone(p) == ProdAt(p, "idle", 0, 0)

\* What a play_audio call does to the histories of the loop's model.
Arrival ==
    /\ gap' = 0
    /\ gapPlaying' = (playback_started /\ QSize(playback_queue) = 0)
    /\ plcRun' = 0

\* audio_handler.py:273-286  a receiver calls play_audio with a non-empty
\* frame, the next one to arrive: put_nowait adds it if the queue has room,
\* otherwise it raises Full and the call goes on to drop old frames.
ProdCall(p) ==
    LET opus_data == arrived + 1
    IN  /\ audioRunning
        /\ prod[p].at = "idle"
        /\ arrived < PLAYBACK_QUEUE_SIZE + MaxExtra
        /\ arrived' = opus_data
        /\ IF ~QFull(playback_queue)
           THEN /\ playback_queue' = Append(playback_queue, opus_data)
                /\ prod' = ProdDone(p)
           ELSE /\ prod' = ProdAt(p, "drop", opus_data, 0)
                /\ UNCHANGED playback_queue
        /\ Arrival
        /\ Touch
        /\ UNCHANGED <<playback_started, last_age, obsRun, written>>
        /\ UNCHANGED nodeVars
        /\ UNCHANGED wireVars
        /\ UNCHANGED discVars
        /\ UNCHANGED audioVars
        /\ UNCHANGED pairVars
        /\ UNCHANGED sendVars
        /\ UNCHANGED dgramVars
        /\ UNCHANGED vanishVars
        /\ UNCHANGED sampleVars
        /\ UNCHANGED lockVars

\* audio_handler.py:289-290,293-294  one get_nowait of the five: it takes the
\* oldest frame out, or raises Empty on an empty queue, which ends the call
\* with the new frame logged as skipped.
ProdGet(p) ==
    /\ prod[p].at = "drop"
    /\ IF QSize(playback_queue) > 0
       THEN /\ playback_queue' = DropOldest(playback_queue, 1)
            /\ prod' = ProdAt(p, IF prod[p].gets + 1 < 5 THEN "drop" ELSE "put",
                              prod[p].frame, prod[p].gets + 1)
       ELSE /\ prod' = ProdDone(p)
            /\ UNCHANGED playback_queue
    /\ Touch
    /\ UNCHANGED <<playback_started, last_age, gap, gapPlaying, plcRun, obsRun>>
    /\ UNCHANGED <<written, arrived>>
    /\ UNCHANGED nodeVars
    /\ UNCHANGED wireVars
    /\ UNCHANGED discVars
    /\ UNCHANGED audioVars
    /\ UNCHANGED pairVars
    /\ UNCHANGED sendVars
    /\ UNCHANGED dgramVars
    /\ UNCHANGED vanishVars
    /\ UNCHANGED sampleVars
    /\ UNCHANGED lockVars

\* audio_handler.py:291-294  the second put_nowait: it adds the new frame, or
\* raises Full if the queue has been filled again, which ends the call with
\* the new frame logged as skipped.
ProdPut(p) ==
    /\ prod[p].at = "put"
    /\ IF ~QFull(playback_queue)
       THEN playback_queue' = Append(playback_queue, prod[p].frame)
       ELSE UNCHANGED playback_queue
    /\ prod' = ProdDone(p)
    /\ Touch
    /\ UNCHANGED <<playback_started, last_age, gap, gapPlaying, plcRun, obsRun>>
    /\ UNCHANGED <<written, arrived>>
    /\ UNCHANGED nodeVars
    /\ UNCHANGED wireVars
    /\ UNCHANGED discVars
    /\ UNCHANGED audioVars
    /\ UNCHANGED pairVars
    /\ UNCHANGED sendVars
    /\ UNCHANGED dgramVars
    /\ UNCHANGED vanishVars
    /\ UNCHANGED sampleVars
    /\ UNCHANGED lockVars

\* The receivers' play_audio calls, step by step, and the playback loop
\* scheduled when the queue holds what it waits for; its sleeps and
\* timeouts leave the queue alone.
QueueNext ==
    \/ \E p \in Producers : ProdCall(p)
    \/ \E p \in Producers : ProdGet(p)
    \/ \E p \in Producers : ProdPut(p)
    \/ BufferReady(QSize(playback_queue), target_size) /\ PlayFill
    \/ PlayGet(AGC_TARGET_LEVEL, 0, TRUE)

QueueSpec == Init /\ [][QueueNext]_vars

\* ------------------------------------------------- a full queue

\* Producer p's play_audio call, which found the queue full, ends at this
\* step.
FullCallEnds(p) == prod[p].at # "idle" /\ prod'[p].at = "idle"

\* C33: a play_audio call that finds the queue full ends with exactly five
\* frames taken out by it and its new frame appended, whatever the other
\* receivers and the playback loop do in between; the new frame is never
\* the one discarded.
C33_FullQueueDropsFiveKeepsNew ==
    [][\A p \in Producers :
          FullCallEnds(p) =>
             /\ prod[p].gets = 5
             /\ playback_queue' = Append(playback_queue, prod[p].frame)]_vars

\* ------------------------------------------------- the queue's discipline

\* The frames in queue q.
Frames(q) == {q[i] : i \in 1..Len(q)}

\* No frame is in q twice.
NoRepeats(q) == Cardinality(Frames(q)) = Len(q)

\* q2 is q1 with one frame added at the end, a frame that was not in it.
Enqueued(q1, q2) ==
    /\ Len(q2) = Len(q1) + 1
    /\ q2 = Append(q1, q2[Len(q2)])
    /\ q2[Len(q2)] \notin Frames(q1)

\* q2 is q1 with its oldest frame taken out.
Dequeued(q1, q2) == q1 # <<>> /\ q2 = Tail(q1)

\* C34: the playback queue never holds more than PLAYBACK_QUEUE_SIZE frames;
\* frames go in at its end and come out at its front, so they leave in the
\* order they went in; the frame the loop writes is the oldest one queued,
\* it leaves the queue when it is taken, and no frame is queued twice, so
\* each is played at most once.
C34_QueueIsBoundedFifo ==
    [][/\ QSize(playback_queue') <= PLAYBACK_QUEUE_SIZE
       /\ NoRepeats(playback_queue')
       /\ playback_queue' # playback_queue =>
             \/ Enqueued(playback_queue, playback_queue')
             \/ Dequeued(playback_queue, playback_queue')
       /\ \A p \in Producers :
             prod'[p].at # "idle" =>
                /\ prod'[p].frame \notin Frames(playback_queue')
                /\ prod'[p].frame # written'.frame
       /\ (written' # written /\ written'.kind = "frame") =>
             /\ Dequeued(playback_queue, playback_queue')
             /\ written'.frame = Head(playback_queue)
             /\ written'.frame \notin Frames(playback_queue')
             /\ written.kind = "frame" => written'.frame # written.frame]_vars

\* The queue has been full, a receiver has dropped old frames and queued its
\* new one, and the loop has written the oldest frame that was left.
C34_Witness ==
    /\ arrived > PLAYBACK_QUEUE_SIZE
    /\ written.kind = "frame"
    /\ written.frame > 5
    /\ QSize(playback_queue) > 0
    /\ playback_queue[QSize(playback_queue)] > PLAYBACK_QUEUE_SIZE
    /\ \A p \in Producers : prod[p].at = "idle"

\* ------------------------------------------------- mixing

\* C35: every output frame the loop makes from queued frames is made from
\* all the frames queued at that moment: the write empties the queue, so two
\* frames queued together are never written one after the other.
C35_TickDrainsWholeQueue ==
    [][(written' # written /\ written'.kind = "frame") =>
          /\ written'.mixed = QSize(playback_queue)
          /\ playback_queue' = <<>>]_vars

\* ------------------------------------------------- AGC, sample by sample

\* int16 samples of a decoded frame: the extremes, small values and values
\* that leave the int16 range at gains the AGC reaches.
Samples == {-32768, -8192, -1, 0, 8191, 8192, 32767}

INT16_MIN == -32768
INT16_MAX == 32767

\* The integer part of a / b for b > 0, as a conversion to an integer type
\* takes it: rounded toward zero.
TruncDiv(a, b) == IF a >= 0 THEN a \div b ELSE -((-a) \div b)

\* The low 16 bits of x read as a signed number.
Wrap16(x) == ((x + 32768) % 65536) - 32768

\* What a conversion of an out-of-range float to int16 can give: the low 16
\* bits of the integer part, the nearest limit, or the "integer indefinite"
\* value.  The conversion is undefined for such values and depends on the
\* build.
CastKinds == {"wrap", "saturate", "indefinite"}

\* audio_handler.py:431  ndarray.astype(np.int16) of the float x / 1000.
AsInt16(x, cast) ==
    LET v == TruncDiv(x, 1000)
    IN  IF INT16_MIN <= v /\ v <= INT16_MAX THEN v
        ELSE IF cast = "wrap" THEN Wrap16(v)
        ELSE IF cast = "saturate" THEN Clip(v, INT16_MIN, INT16_MAX)
        ELSE INT16_MIN

\* A frame of OPUS_FRAME_SIZE = 960 samples with RMS level current_level (in
\* thousandths of full scale) can hold the sample: one sample alone brings
\* the RMS to |sample| / (32768 * sqrt(960)), and sqrt(960) > 30.
CanHold(current_level, sample) ==
    (IF sample >= 0 THEN sample ELSE -sample) * 1000
        <= 30 * current_level * 32768

\* audio_handler.py:401-433  apply_agc on a frame of that level: the gain is
\* updated, then every sample is multiplied by the new gain (in thousandths)
\* and the product converted to int16; one sample of the frame is followed.
ScaleSample(current_level, sample, cast) ==
    /\ pb = "loop"
    /\ audioRunning
    /\ CanHold(current_level, sample)
    /\ AgcBody(current_level)
    /\ scaled' = [id |-> 1 - scaled.id, sample |-> sample,
                  gain |-> agc_current_gain',
                  out |-> AsInt16(sample * agc_current_gain', cast)]
    /\ Touch
    /\ UNCHANGED <<target_size, underrun_count, overrun_count, vadLog>>
    /\ UNCHANGED nodeVars
    /\ UNCHANGED wireVars
    /\ UNCHANGED discVars
    /\ UNCHANGED pairVars
    /\ UNCHANGED sendVars
    /\ UNCHANGED playVars
    /\ UNCHANGED dgramVars
    /\ UNCHANGED vanishVars
    /\ UNCHANGED queueVars
    /\ UNCHANGED lockVars

\* The RMS levels of the frames whose samples are followed: just above the
\* threshold, the target level and full scale.
SampleLevels == {11, AGC_TARGET_LEVEL, 1000}

\* The gain control with a sample of every frame it scales.
SampleNext ==
    \E current_level \in SampleLevels : \E sample \in Samples :
        \E cast \in CastKinds : ScaleSample(current_level, sample, cast)

SampleSpec == Init /\ [][SampleNext]_vars

\* C36: every sample apply_agc puts out is the product of the input sample
\* and the gain, cut to an integer and held to [-32768, 32767]; it is never
\* the product wrapped around modulo 2^16.
C36_AgcOutputSaturates ==
    scaled.out = Clip(TruncDiv(scaled.sample * scaled.gain, 1000),
                      INT16_MIN, INT16_MAX)

\* ---------------------------------------------------------------------------
\* The table mutex.  Above, a region of code inside `with self.lock:` is one
\* step.  Here the lock is a variable, a region is entered, run access by
\* access and left, and the threads interleave between any two of these steps,
\* so that mutual exclusion is a property of the regions and not a premise.
\* ---------------------------------------------------------------------------

\* The regions that are written inside `with self.lock:`, where the mutex
\* is dropped around the receiver's deregistration.
WithLockButReceiver(t) == t # "recv"

\* network_manager.py:67, 92, 123, 133, 203, 275, 291  The regions that are
\* written inside `with self.lock:`: every one that uses the table.
WithLock(t) == t \in TableUsers

\* What the lock level leaves alone.
OnlyTable ==
    /\ Touch
    /\ UNCHANGED <<appRunning, recording, audioRunning, discRunning, useTailscale,
                   netRunning, pc, dlAddr, dlSock, dlResult, acc, accSock, dloop,
                   pb, sends, netStopped>>
    /\ UNCHANGED wireVars
    /\ UNCHANGED discVars
    /\ UNCHANGED audioVars
    /\ UNCHANGED pairVars
    /\ UNCHANGED sendVars
    /\ UNCHANGED playVars
    /\ UNCHANGED dgramVars
    /\ UNCHANGED vanishVars
    /\ UNCHANGED queueVars
    /\ UNCHANGED sampleVars

\* Thread t moves to `at` in its region, working on socket s.
RegionAt(t, at, s) == region' = [region EXCEPT ![t] = [at |-> at, sock |-> s]]

\* Thread t reads or changes the table while thread `holder` has the lock.
AccessedUnder(t, holder) ==
    access' = [id |-> 1 - access.id, by |-> t, held |-> holder = t]

\* Thread t reads or changes the table in a step that began inside its region.
Accessed(t) == AccessedUnder(t, lock)

\* `with self.lock:`  __enter__: blocks until the lock is free, then takes it.
Enter(t) ==
    /\ WithLock(t) => lock = "free"
    /\ lock' = IF WithLock(t) THEN t ELSE lock

\* `with self.lock:`  __exit__, on a normal exit and on an exception alike.
Leave(t) == lock' = IF lock = t THEN "free" ELSE lock

\* network_manager.py:89-92  accept() has returned a socket from peer a; the
\* accept thread enters its region.
AcceptEnter(a) ==
    /\ region["accept"].at = "out"
    /\ Len(socks) < MaxSocks
    /\ Enter("accept")
    /\ socks' = Append(socks, NewSock(a))
    /\ RegionAt("accept", "in", Len(socks) + 1)
    /\ UNCHANGED <<connections, iter, access>>
    /\ OnlyTable

\* network_manager.py:93-105  `if peer_ip not in self.connections:` register
\* and start the receiver, else close the new socket; the region ends.
AcceptAccess ==
    LET s == region["accept"].sock IN
    /\ region["accept"].at = "in"
    /\ Accessed("accept")
    /\ IF ~DictHas(connections, socks[s].peer)
       THEN /\ connections' = DictSet(connections, socks[s].peer, s)
            /\ socks' = SetRcv(socks, s, "top")
       ELSE /\ socks' = CloseSock(socks, s)
            /\ UNCHANGED connections
    /\ Leave("accept")
    /\ RegionAt("accept", "out", 0)
    /\ UNCHANGED iter
    /\ OnlyTable

\* network_manager.py:123  connect_to_peer(a): the first region is entered.
DialEnter(a) ==
    /\ region["dial"].at = "out"
    /\ Len(socks) < MaxSocks
    /\ Enter("dial")
    /\ socks' = Append(socks, NewSock(a))
    /\ RegionAt("dial", "in", Len(socks) + 1)
    /\ UNCHANGED <<connections, iter, access>>
    /\ OnlyTable

\* network_manager.py:124-131  `if peer_ip in self.connections: return True`;
\* else the region ends and the socket is connected outside the lock.
DialTest ==
    LET s == region["dial"].sock IN
    /\ region["dial"].at = "in"
    /\ Accessed("dial")
    /\ IF AlreadyConnected(connections, socks[s].peer)
       THEN /\ socks' = CloseSock(socks, s)
            /\ RegionAt("dial", "out", 0)
       ELSE /\ UNCHANGED socks
            /\ RegionAt("dial", "dialled", s)
    /\ Leave("dial")
    /\ UNCHANGED <<connections, iter>>
    /\ OnlyTable

\* network_manager.py:133  the second region of connect_to_peer is entered.
DialEnterRegister ==
    /\ region["dial"].at = "dialled"
    /\ Enter("dial")
    /\ RegionAt("dial", "in2", region["dial"].sock)
    /\ UNCHANGED <<connections, socks, iter, access>>
    /\ OnlyTable

\* network_manager.py:134-145  self.connections[peer_ip] = sock; the region
\* ends and the receiver is started.
DialRegister ==
    LET s == region["dial"].sock IN
    /\ region["dial"].at = "in2"
    /\ Accessed("dial")
    /\ connections' = RegisterDialled(connections, socks[s].peer, s)
    /\ socks' = SetRcv(socks, s, "top")
    /\ Leave("dial")
    /\ RegionAt("dial", "out", 0)
    /\ UNCHANGED iter
    /\ OnlyTable

\* network_manager.py:199-203  the receiver of socket s has left its loop and
\* enters its region.
RecvEnter(s) ==
    /\ region["recv"].at = "out"
    /\ socks[s].rcv = "top"
    /\ Enter("recv")
    /\ RegionAt("recv", "in", s)
    /\ UNCHANGED <<connections, socks, iter, access>>
    /\ OnlyTable

\* network_manager.py:204-210  `if peer_ip in self.connections: del ...`; the
\* region ends and the socket is closed.
RecvDeregister ==
    LET s == region["recv"].sock IN
    /\ region["recv"].at = "in"
    /\ Accessed("recv")
    /\ connections' = Deregister(connections, socks[s].peer, s)
    /\ socks' = [socks EXCEPT ![s].open = FALSE, ![s].rcv = "done"]
    /\ Leave("recv")
    /\ RegionAt("recv", "out", 0)
    /\ UNCHANGED iter
    /\ OnlyTable

\* network_manager.py:291  get_connected_peers() enters its region.
QueryEnter ==
    /\ region["query"].at = "out"
    /\ Enter("query")
    /\ RegionAt("query", "in", 0)
    /\ UNCHANGED <<connections, socks, iter, access>>
    /\ OnlyTable

\* network_manager.py:292  return list(self.connections.keys())
QueryRead ==
    /\ region["query"].at = "in"
    /\ Accessed("query")
    /\ Leave("query")
    /\ RegionAt("query", "out", 0)
    /\ UNCHANGED <<connections, socks, iter>>
    /\ OnlyTable

\* network_manager.py:67-68, 275-278  _send_packet or stop() enters its region
\* and creates the iterator of self.connections.items().
LoopEnter(t) ==
    /\ region[t].at = "out"
    /\ Enter(t)
    /\ AccessedUnder(t, lock')
    /\ iter' = [iter EXCEPT ![t] = [pos |-> 0, size |-> Len(connections),
                                    disconnected |-> <<>>]]
    /\ RegionAt(t, "loop", 0)
    /\ UNCHANGED <<connections, socks>>
    /\ OnlyTable

\* The dict has another size than when the iterator of t was created: its
\* next step raises RuntimeError.
ChangedSize(t) == Len(connections) # iter[t].size

\* network_manager.py:68-73, 278-283  One step of the `for` loop of t: the
\* next entry is visited (its socket closed by stop(); sendall by
\* _send_packet, which fails or not); after the last entry the loop ends; a
\* dict that changed size raises RuntimeError out of the region.
LoopStep(t, fails) ==
    /\ region[t].at = "loop"
    /\ Accessed(t)
    /\ IF ChangedSize(t)
       THEN /\ Leave(t)
            /\ RegionAt(t, "out", 0)
            /\ UNCHANGED <<iter, socks>>
       ELSE IF iter[t].pos < Len(connections)
       THEN LET e == connections[iter[t].pos + 1] IN
            /\ iter' = [iter EXCEPT ![t].pos = @ + 1,
                                    ![t].disconnected =
                                        IF t = "send" /\ fails
                                        THEN Append(@, e.ip) ELSE @]
            /\ socks' = IF t = "stop" THEN CloseSock(socks, e.sock) ELSE socks
            /\ UNCHANGED <<lock, region>>
       ELSE /\ RegionAt(t, "after", 0)
            /\ UNCHANGED <<lock, iter, socks>>
    /\ UNCHANGED connections
    /\ OnlyTable

\* network_manager.py:73, 285-287  After the loop: stop() clears the table,
\* _send_packet deletes the peers of its disconnected list; the region ends.
LoopAfter(t) ==
    /\ region[t].at = "after"
    /\ Accessed(t)
    /\ connections' = IF t = "stop" THEN <<>>
                      ELSE RemoveAll(connections, iter[t].disconnected)
    /\ Leave(t)
    /\ RegionAt(t, "out", 0)
    /\ UNCHANGED <<iter, socks>>
    /\ OnlyTable

LockNext ==
    \/ \E a \in Addrs : AcceptEnter(a)
    \/ AcceptAccess
    \/ \E a \in Addrs : DialEnter(a)
    \/ DialTest
    \/ DialEnterRegister
    \/ DialRegister
    \/ \E s \in 1..Len(socks) : RecvEnter(s)
    \/ RecvDeregister
    \/ QueryEnter
    \/ QueryRead
    \/ \E t \in Loopers : LoopEnter(t)
    \/ \E t \in Loopers : \E fails \in BOOLEAN : LoopStep(t, fails)
    \/ \E t \in Loopers : LoopAfter(t)

LockSpec == InitStarted /\ [][LockNext]_vars

\* C37: every read and every change of the connection table is made by the
\* thread that holds the lock, and while _send_packet is in its loop over the
\* table no other thread changes the table, so the loop never finds a dict
\* that changed size.
C37_TableOnlyUnderLock ==
    /\ access.held
    /\ region["send"].at = "loop" => lock = "send" /\ ~ChangedSize("send")

\* _send_packet is in the middle of its loop over a table of two entries,
\* one of them failed, while a receiver is ready to deregister.
C37_Witness ==
    /\ region["send"].at = "loop"
    /\ iter["send"].pos = 1
    /\ Len(iter["send"].disconnected) = 1
    /\ Len(connections) = 2
    /\ \E s \in 1..Len(socks) : socks[s].rcv = "top"

\* ---------------------------------------------------------------------------
\* Strategy B with its timing.  A round of the overlay loop takes at most
\* BROADCAST_INTERVAL plus the agent's timeout of 3 s, which is less than one
\* tick of the clock used for PEER_TIMEOUT here; so the clock advances only
\* when the overlay loop has asked the agent during the current tick.
\* ---------------------------------------------------------------------------

\* Failures of a query that _get_tailscale_peers does not catch: the agent's
\* binary is not found (FileNotFoundError), the answer's "Peer" member is
\* null (AttributeError on None.items()).
UncaughtErrors == {"file_not_found", "peer_null"}

\* peer_discovery.py:83-99,163-165,184-187  the loop test passes and the query
\* raises an exception that _get_tailscale_peers lets through: the handler of
\* the loop logs it, and the loop sleeps and returns to its test.
TsFetchRaises(error) ==
    /\ dloop["tailscale"] = "run"
    /\ discRunning
    /\ tsIns' = [res |-> {}, todo |-> {}, at |-> now, failed |-> TRUE]
    /\ Touch
    /\ UNCHANGED nodeVars
    /\ UNCHANGED <<peers, now, clTime, clIter, clRemove, tsDel, heard>>
    /\ UNCHANGED wireVars
    /\ UNCHANGED audioVars
    /\ UNCHANGED pairVars
    /\ UNCHANGED sendVars
    /\ UNCHANGED playVars
    /\ UNCHANGED dgramVars
    /\ UNCHANGED vanishVars
    /\ UNCHANGED queueVars
    /\ UNCHANGED sampleVars
    /\ UNCHANGED lockVars

\* One second passes, the overlay loop having asked the agent in this one.
OverlayTick ==
    /\ discRunning => tsIns.at = now
    /\ Tick

OverlayNext ==
    \/ StartFlag
    \/ StartDiscovery
    \/ StartNetwork
    \/ StartRecording
    \/ OverlayTick
    \/ CleanupBegin
    \/ CleanupScan
    \/ CleanupDelete
    \/ \E online \in SUBSET AllAddrs : TsFetch(online)
    \/ \E error \in AgentErrors : TsFetchError(error)
    \/ \E error \in UncaughtErrors : TsFetchRaises(error)
    \/ TsInsert
    \/ TsDelete

OverlayInit == Init /\ useTailscale

\* A node that chose Strategy B, with an overlay agent that can fail.
OverlaySpec == OverlayInit /\ [][OverlayNext]_vars

\* The overlay loop ends a round in this step.
RoundEnds == dloop["tailscale"] = "del" /\ dloop'["tailscale"] = "run"

\* C38: under Strategy B, when a round of the overlay loop ends, the keys of
\* the Peer Table are the peers that the round's query returned, and the
\* aging loop never removes a peer.
C38_OverlayTableFollowsRounds ==
    [][/\ RoundEnds => PeerKeys(peers') = tsIns.res
       /\ \A a \in Addrs : ~AgingRemoves(a)
      ]_vars

\* ---------------------------------------------------------------------------
\* Callbacks and the connection table
\* ---------------------------------------------------------------------------

\* The receiver of socket s reads a frame and hands it to its callback in
\* this step.
Delivers(s) == socks[s].rcv = "read" /\ socks'[s].rcv = "top"

\* Socket s is the one the table holds for its peer's address.
IsRegistered(s) ==
    /\ DictHas(connections, socks[s].peer)
    /\ DictGet(connections, socks[s].peer) = s

\* C39: whenever a receiver hands a frame to a callback, the socket it read
\* the frame from is the one registered in the connection table for the
\* frame's source address; a receiver whose connection was deregistered
\* delivers nothing.
C39_CallbacksOnlyFromRegisteredSocket ==
    [][\A s \in SockIds : Delivers(s) => IsRegistered(s)]_vars

\* ---------------------------------------------------------------------------
\* An idle node: FILLING with an empty queue
\* ---------------------------------------------------------------------------

\* The playback loop and play_audio, with frames of the target level that
\* decode or not and are written at once; the playback thread is scheduled
\* again and again.
FillNext ==
    \/ PlayAudio(AnyFrame)
    \/ PlayFill
    \/ \E decoded \in BOOLEAN : PlayGet(AGC_TARGET_LEVEL, 0, decoded)
    \/ PlayTimeout(AGC_TARGET_LEVEL, 0)
    \/ PlayRecheck

FillFairness == WF_vars(PlayFill)

FillSpec == Init /\ [][FillNext]_vars /\ FillFairness

\* The loop makes a check in FILLING on an empty queue in this step: only
\* such a check changes the underrun counter there.
EmptyFillCheck ==
    /\ ~playback_started
    /\ playback_queue = <<>>
    /\ underrun_count' # underrun_count

\* Nothing has been written to the output device yet.
NothingPlayed == written.kind = "none" /\ plcRun = 0

====
